---- MODULE Spec2Model ----
(***************************************************************************)
(* Realtime voice-coach session controller (realtime_coach.py) together    *)
(* with the telemetry provider it queries (src/mcp_client.py).             *)
(*                                                                         *)
(* Python values are carried as small records (PyNone, PyInt, PyFloat,     *)
(* PyList); a Python dict is the sequence of its <<key, JSON text>> items  *)
(* in insertion order, and json.dumps builds the JSON text of such a dict. *)
(* Floats are fixed-point numbers in thousandths.                          *)
(***************************************************************************)
EXTENDS Integers, Sequences, FiniteSets, TLC

(***************************************************************************)
(* Bounds of the model.                                                    *)
(***************************************************************************)
MaxEvents == 2      \* inbound wire messages delivered in one run
MaxCaptured == 2    \* microphone callbacks fired in one run
MaxInputs == 3      \* inbound messages and microphone callbacks in one run, together
MaxBeforeInterrupt == 1  \* messages and frames taken before a Ctrl+C arrives

(***************************************************************************)
(* Python values and their JSON text.                                      *)
(***************************************************************************)
PyNone == [kind |-> "none", n |-> 0, elems |-> <<>>]
PyInt(i) == [kind |-> "int", n |-> i, elems |-> <<>>]
PyFloat(milli) == [kind |-> "float", n |-> milli, elems |-> <<>>]
PyList(s) == [kind |-> "list", n |-> 0, elems |-> s]

\* bool(v) of Python: None, 0, 0.0 and [] are falsy
Truthy(v) ==
    CASE v.kind = "none" -> FALSE
      [] v.kind = "list" -> Len(v.elems) > 0
      [] OTHER -> v.n # 0

IntText(i) == IF i < 0 THEN "-" \o ToString(0 - i) ELSE ToString(i)

\* repr of a non-negative float given in thousandths: 144000 -> 144.0, 89480 -> 89.48
FracText(f) ==
    IF f % 100 = 0 THEN ToString(f \div 100)
    ELSE IF f % 10 = 0
         THEN (IF f < 100 THEN "0" ELSE "") \o ToString(f \div 10)
         ELSE (IF f < 10 THEN "00" ELSE IF f < 100 THEN "0" ELSE "") \o ToString(f)

FloatText(milli) == ToString(milli \div 1000) \o "." \o FracText(milli % 1000)

RECURSIVE JoinTexts(_)
JoinTexts(s) ==
    IF s = <<>> THEN ""
    ELSE IF Len(s) = 1 THEN s[1]
    ELSE s[1] \o ", " \o JoinTexts(Tail(s))

JsonStr(s) == "\"" \o s \o "\""

\* JSON text of a scalar or list value, as json.dumps renders it
JsonText(v) ==
    CASE v.kind = "none" -> "null"
      [] v.kind = "int" -> IntText(v.n)
      [] v.kind = "float" -> FloatText(v.n)
      [] OTHER -> "[" \o JoinTexts([i \in 1..Len(v.elems) |-> IntText(v.elems[i])]) \o "]"

\* json.dumps of a dict: items in insertion order, values already JSON text
json_dumps(d) ==
    "{" \o JoinTexts([i \in 1..Len(d) |-> JsonStr(d[i][1]) \o ": " \o d[i][2]]) \o "}"

Keys(d) == {d[i][1] : i \in 1..Len(d)}

\* dict.get(key, default) on the JSON-text dict
DictGet(d, key, default) ==
    IF key \in Keys(d)
    THEN d[CHOOSE i \in 1..Len(d) : d[i][1] = key][2]
    ELSE default

(***************************************************************************)
(* The simulator behind irsdk.IRSDK: what a read of the shared memory      *)
(* yields while the simulator runs.  readfail: item reads raise.  info:    *)
(* what session_info_update holds (a number, or a session document).       *)
(* SimOff: no simulator is running, there is nothing to read.              *)
(***************************************************************************)
NoDrivers == <<>>
TwoDrivers ==
    << [CarIdx |-> 0, UserName |-> "Ann", CarScreenNameShort |-> "MX5", CarNumber |-> "7"],
       [CarIdx |-> 1, UserName |-> "Bob", CarScreenNameShort |-> "GT3", CarNumber |-> "12"] >>

SimStates ==
    { [speed |-> 40000, rpm |-> 6000000, gear |-> 3, lap |-> 2, cam |-> 0, positions |-> <<2, 1>>,
       readfail |-> FALSE, info |-> "document", track |-> "Monza", drivers |-> TwoDrivers],
      [speed |-> 0, rpm |-> 0, gear |-> 0, lap |-> 0, cam |-> 0, positions |-> <<>>,
       readfail |-> TRUE, info |-> "number", track |-> "unknown", drivers |-> NoDrivers] }

SimOff ==
    [speed |-> 0, rpm |-> 0, gear |-> 0, lap |-> 0, cam |-> 0, positions |-> <<>>,
     readfail |-> TRUE, info |-> "off", track |-> "unknown", drivers |-> NoDrivers]

\* self._irsdk[name] when the read succeeds; variables the sim does not carry read as None
IrValue(s, name) ==
    CASE name = "Speed" -> PyFloat(s.speed)
      [] name = "RPM" -> PyFloat(s.rpm)
      [] name = "Gear" -> PyInt(s.gear)
      [] name = "Lap" -> PyInt(s.lap)
      [] name = "CamCarIdx" -> PyInt(s.cam)
      [] name = "CarIdxPosition" -> PyList(s.positions)
      [] OTHER -> PyNone

(***************************************************************************)
(* RacingMCPClient.  p is the provider: p.irsdk is the handle ("None" or   *)
(* "handle"), p.is_connected the handle's is_connected, p.sim the sim.     *)
(***************************************************************************)
\* variant: the handle alone is taken for a live connection
_ready_handle_only(p) == p.irsdk # "None"

_ready(p) == p.irsdk # "None" /\ p.is_connected

_get(p, name, default) ==
    IF ~_ready(p) THEN default
    ELSE IF p.sim.readfail THEN default
    ELSE IF IrValue(p.sim, name).kind = "none" THEN default
    ELSE IrValue(p.sim, name)

RacingSituationDefault ==
    << <<"position", "null">>, <<"lap", "null">>, <<"speed", "null">>,
       <<"track_conditions", "{}">>, <<"vehicle_status", "{}">>, <<"competitors", "[]">> >>

TelemetryDefault ==
    << <<"rpm", "0">>, <<"gear", "0">>, <<"throttle", "0.0">>, <<"brake", "0.0">>,
       <<"clutch", "0.0">>, <<"steering", "0.0">>, <<"speed_ms", "0.0">>,
       <<"speed_kph", "0.0">>, <<"speed_mph", "0.0">>, <<"temperatures", "{}">> >>

TrackInfoDefault ==
    << <<"name", JsonStr("unknown")>>, <<"length", JsonStr("unknown")>>,
       <<"layout", JsonStr("unknown")>>, <<"surface", JsonStr("unknown")>>,
       <<"weather", JsonStr("unknown")>> >>

\* positions[idx] if 0 <= idx < len(positions) else None
PositionAt(positions, idx) ==
    IF 0 <= idx /\ idx < Len(positions.elems) THEN PyInt(positions.elems[idx + 1]) ELSE PyNone

\* session_info.get("DriverInfo", {}).get("Drivers", []) when session_info is a dict
Drivers(p) == IF p.sim.info = "document" THEN p.sim.drivers ELSE <<>>

Competitor(driver, positions) ==
    json_dumps(<< <<"name", JsonStr(driver.UserName)>>,
                  <<"car", JsonStr(driver.CarScreenNameShort)>>,
                  <<"car_number", JsonStr(driver.CarNumber)>>,
                  <<"position", JsonText(PositionAt(positions, driver.CarIdx))>> >>)

get_racing_situation(p) ==
    IF ~_ready(p) THEN RacingSituationDefault
    ELSE
      LET speed_ms == _get(p, "Speed", PyFloat(0))
          cam_idx == _get(p, "CamCarIdx", PyInt(-1))
          got == _get(p, "CarIdxPosition", PyList(<<>>))
          positions == IF Truthy(got) THEN got ELSE PyList(<<>>)
          others == SelectSeq(Drivers(p),
                              LAMBDA d : ~(d.CarIdx = cam_idx.n \/ d.CarIdx < 0))
          competitors == [i \in 1..Len(others) |-> Competitor(others[i], positions)]
          scaled(k) == IF Truthy(speed_ms) THEN PyFloat((speed_ms.n * k) \div 1000)
                       ELSE PyFloat(0)
      IN << <<"position", JsonText(PositionAt(positions, cam_idx.n))>>,
            <<"lap", JsonText(_get(p, "Lap", PyNone))>>,
            <<"lap_distance", JsonText(_get(p, "LapDist", PyNone))>>,
            <<"speed", json_dumps(<< <<"m_s", JsonText(speed_ms)>>,
                                     <<"km_h", JsonText(scaled(3600))>>,
                                     <<"mph", JsonText(scaled(2237))>> >>)>>,
            <<"track_conditions",
              json_dumps(<< <<"track_temp_c", JsonText(_get(p, "TrackTempCrew", PyNone))>>,
                            <<"air_temp_c", JsonText(_get(p, "AirTemp", PyNone))>>,
                            <<"weather_type", JsonText(_get(p, "WeatherType", PyNone))>> >>)>>,
            <<"vehicle_status",
              json_dumps(<< <<"fuel_level_l", JsonText(_get(p, "FuelLevel", PyNone))>>,
                            <<"fuel_percent", JsonText(_get(p, "FuelLevelPct", PyNone))>>,
                            <<"oil_temp_c", JsonText(_get(p, "OilTemp", PyNone))>>,
                            <<"water_temp_c", JsonText(_get(p, "WaterTemp", PyNone))>> >>)>>,
            <<"competitors", "[" \o JoinTexts(competitors) \o "]">> >>

get_telemetry(p) ==
    IF ~_ready(p) THEN TelemetryDefault
    ELSE
      LET speed_ms == _get(p, "Speed", PyFloat(0))
      IN << <<"rpm", JsonText(_get(p, "RPM", PyInt(0)))>>,
            <<"gear", JsonText(_get(p, "Gear", PyInt(0)))>>,
            <<"throttle", JsonText(_get(p, "Throttle", PyFloat(0)))>>,
            <<"brake", JsonText(_get(p, "Brake", PyFloat(0)))>>,
            <<"clutch", JsonText(_get(p, "Clutch", PyFloat(0)))>>,
            <<"steering", JsonText(_get(p, "SteeringWheelAngle", PyFloat(0)))>>,
            <<"speed_ms", JsonText(speed_ms)>>,
            <<"speed_kph", JsonText(PyFloat((speed_ms.n * 3600) \div 1000))>>,
            <<"speed_mph", JsonText(PyFloat((speed_ms.n * 2237) \div 1000))>>,
            <<"temperatures",
              json_dumps(<< <<"oil_temp_c", JsonText(_get(p, "OilTemp", PyNone))>>,
                            <<"water_temp_c", JsonText(_get(p, "WaterTemp", PyNone))>> >>)>> >>

get_track_info(p) ==
    IF ~_ready(p) THEN TrackInfoDefault
    ELSE
      LET name == IF p.sim.info = "document" THEN p.sim.track ELSE "unknown"
      IN << <<"name", JsonStr(name)>>, <<"length", JsonStr("unknown")>>,
            <<"layout", JsonStr("unknown")>>, <<"surface", JsonStr("unknown")>>,
            <<"weather", JsonStr("unknown")>>, <<"city", "null">>, <<"country", "null">> >>

(***************************************************************************)
(* base64 on short byte strings.  A text is the sequence of its sextets;   *)
(* 64 stands for the padding character "=".                                *)
(***************************************************************************)
RECURSIVE b64encode(_)
b64encode(data) ==
    IF Len(data) = 0 THEN <<>>
    ELSE IF Len(data) = 1
         THEN << data[1] \div 4, (data[1] % 4) * 16, 64, 64 >>
    ELSE IF Len(data) = 2
         THEN << data[1] \div 4, (data[1] % 4) * 16 + data[2] \div 16, (data[2] % 16) * 4, 64 >>
    ELSE << data[1] \div 4, (data[1] % 4) * 16 + data[2] \div 16,
            (data[2] % 16) * 4 + data[3] \div 64, data[3] % 64 >>
         \o b64encode(SubSeq(data, 4, Len(data)))

RECURSIVE b64decode(_)
b64decode(text) ==
    IF Len(text) < 4 THEN <<>>
    ELSE LET c == SubSeq(text, 1, 4)
             rest == SubSeq(text, 5, Len(text))
         IN IF c[3] = 64 THEN << c[1] * 4 + c[2] \div 16 >>
            ELSE IF c[4] = 64
                 THEN << c[1] * 4 + c[2] \div 16, (c[2] % 16) * 16 + c[3] \div 4 >>
            ELSE << c[1] * 4 + c[2] \div 16, (c[2] % 16) * 16 + c[3] \div 4,
                    (c[3] % 4) * 64 + c[4] >> \o b64decode(rest)

(***************************************************************************)
(* Inputs: microphone frames and inbound wire messages.                    *)
(***************************************************************************)
\* bytes(indata) of the k-th buffer the sound device hands to the callback: buffers
\* of one, two and three bytes in turn, all different
Frame(k) == [j \in 1..(((k - 1) % 3) + 1) |-> (k * 37 + j * 101) % 256]

ToolNames == {"get_telemetry", "get_racing_situation", "get_track_info"}

Event(type, delta, name, call_id) ==
    [type |-> type, delta |-> delta, name |-> name, call_id |-> call_id, error |-> "None"]

PlainEvent(type) == Event(type, <<>>, "None", "None")

\* a wire message that json.loads rejects
MalformedMessage == PlainEvent("<not json>")

PlainTypes ==
    { "session.created", "session.updated", "conversation.item.created",
      "response.audio.done", "input_audio_buffer.speech_started",
      "input_audio_buffer.speech_stopped", "rate_limits.updated" }

\* an error event and the code its "error" object carries
ErrorEvent(code) == [PlainEvent("error") EXCEPT !.error = code]

ErrorCodes == {"rate_limit_exceeded", "invalid_api_key", "invalid_session"}

\* the event types the if/elif chain of handle_messages tests for
Recognized ==
    { "session.created", "session.updated", "conversation.item.created",
      "response.audio.delta", "response.audio.done",
      "response.function_call_arguments.done", "error",
      "input_audio_buffer.speech_started", "input_audio_buffer.speech_stopped" }

\* the decoded audio of the k-th audio chunk the service streams: chunks of two, three
\* and one bytes in turn, all different
Chunk(k) == [j \in 1..((k % 3) + 1) |-> (k * 53 + j * 29) % 256]

AudioDelta(delta) == Event("response.audio.delta", delta, "None", "None")

\* an audio delta without payload, and the one carrying the k-th chunk
DeltaEvents(k) == { AudioDelta(<<>>), AudioDelta(b64encode(Chunk(k))) }

ToolEvents ==
    { Event("response.function_call_arguments.done", <<>>, "get_telemetry", "call_a"),
      Event("response.function_call_arguments.done", <<>>, "get_racing_situation", "call_b"),
      Event("response.function_call_arguments.done", <<>>, "get_track_info", "call_a"),
      Event("response.function_call_arguments.done", <<>>, "unknown_tool", "call_b") }

\* what the service may send next, having streamed k - 1 audio chunks so far
Messages(k) == {PlainEvent(t) : t \in PlainTypes} \cup DeltaEvents(k) \cup ToolEvents
               \cup {ErrorEvent(code) : code \in ErrorCodes} \cup {MalformedMessage}

\* the same, for each number of chunks streamed so far, computed once
Inbox == [k \in 1..(MaxEvents + 1) |-> Messages(k)]

(***************************************************************************)
(* State of one RealtimeAPIClient and of one call of run().                *)
(***************************************************************************)
VARIABLES
    run_pc,          \* where run() is: start, ws_open, connected, gather, cleanup, done
    run_exc,         \* the exception run() is propagating, "none" if none
    irsdk_module,    \* whether `import irsdk` succeeded
    ws,              \* self.ws: "None", "open" or "closed"
    ws_alive,        \* whether the connection to the service is still up
    prov,            \* self.racing_client and the sim behind it
    input_queue,     \* self.input_queue
    captured,        \* number of buffers the sound device has handed to the callback
    mic,             \* the sd.InputStream of send_audio: off, on, closed
    send_pc,         \* send_audio: idle, start, loop, get, done, raised
    recv_pc,         \* handle_messages: idle, loop, dispatch, tool_reply, done
    speaker_stream,  \* self.speaker_stream: 0 for None, else a stream of `streams`
    streams,         \* every sd.RawOutputStream created: "open" or "closed"
    played,          \* <<stream, bytes>> written to the speaker, in order
    sent,            \* messages put on the transport, in order
    n_handled,       \* number of inbound messages taken from the transport
    session,         \* what the service has announced: none, created, updated
    calls,           \* the function calls taken so far, each with the provider it met
    exit_cause,      \* why handle_messages left its loop, "none" while it has not
    startup_outcome, \* what IRSDK.startup() did in connect(), "none" before
    cleanup_exc,     \* the exception cleanup() raised, "none" if none
    ignored,         \* whether a message matching no branch of the chain was taken
    status,          \* the speech status last printed: none, listening, processing
    agent,           \* a RacingAIAgent under construction or constructed, NoAgent if none
    app              \* the request the web app served last, NoRequest if none

\* the state of the voice coach
coach_vars == << run_pc, run_exc, irsdk_module, ws, ws_alive, prov, input_queue, captured,
                 mic, send_pc, recv_pc, speaker_stream, streams, played, sent, n_handled,
                 session, calls, exit_cause, startup_outcome, cleanup_exc, ignored,
                 status >>

\* the state of the text agent
agent_vars == << agent >>

\* the state of the web app
app_vars == << app >>

vars == << coach_vars, agent_vars, app_vars >>

\* no RacingAIAgent is being constructed
NoAgent == [phase |-> "none"]

\* the web app has served no request
NoRequest == [endpoint |-> "none"]

\* RacingMCPClient.__init__ : no handle yet
NewProvider == [irsdk |-> "None", is_connected |-> FALSE, sim |-> SimOff]

\* a RealtimeAPIClient as its constructor leaves it, run() not yet called
CoachInit ==
    /\ run_pc = "start"
    /\ run_exc = "none"
    /\ irsdk_module \in BOOLEAN
    /\ ws = "None"
    /\ ws_alive = FALSE
    /\ prov = NewProvider
    /\ input_queue = <<>>
    /\ captured = 0
    /\ mic = "off"
    /\ send_pc = "idle"
    /\ recv_pc = "idle"
    /\ speaker_stream = 0
    /\ streams = <<>>
    /\ played = <<>>
    /\ sent = <<>>
    /\ n_handled = 0
    /\ session = "none"
    /\ calls = <<>>
    /\ exit_cause = "none"
    /\ startup_outcome = "none"
    /\ cleanup_exc = "none"
    /\ ignored = FALSE
    /\ status = "none"

Init ==
    /\ CoachInit
    /\ agent = NoAgent
    /\ app = NoRequest

(***************************************************************************)
(* RacingMCPClient.connect / disconnect.                                   *)
(***************************************************************************)
\* what IRSDK.startup() does: returns True, returns False, or raises
StartupOutcomes == {"true", "false", "raises"}

\* variant: an exception of startup() is not caught
racing_connect_unguarded(p, module, startup, sim) ==
    IF ~module \/ startup = "raises"
    THEN [prov |-> p, result |-> FALSE, raised |-> TRUE]
    ELSE [prov |-> [p EXCEPT !.irsdk = "handle", !.is_connected = (startup = "true"),
                             !.sim = IF startup = "true" THEN sim ELSE SimOff],
          result |-> (startup = "true"),
          raised |-> FALSE]

\* connect(): RuntimeError when the irsdk module is missing; otherwise a new handle,
\* and the value of startup(), False when startup() raised.  sim: the simulator that
\* startup() finds when it returns True
racing_connect(p, module, startup, sim) ==
    IF ~module
    THEN [prov |-> p, result |-> FALSE, raised |-> TRUE]
    ELSE [prov |-> [p EXCEPT !.irsdk = "handle", !.is_connected = (startup = "true"),
                             !.sim = IF startup = "true" THEN sim ELSE SimOff],
          result |-> (startup = "true"),
          raised |-> FALSE]

racing_disconnect(p) ==
    IF p.irsdk = "None" THEN p
    ELSE [p EXCEPT !.irsdk = "None", !.is_connected = FALSE]

\* what IRSDK.shutdown() does: returns, or raises
ShutdownOutcomes == {"ok", "raises"}

\* variant: an exception of shutdown() is not caught
disconnect_unguarded(p, shutdown) ==
    IF p.irsdk = "None"
    THEN [prov |-> p, shutdown_called |-> FALSE, raised |-> FALSE]
    ELSE IF shutdown = "raises"
         THEN [prov |-> p, shutdown_called |-> TRUE, raised |-> TRUE]
         ELSE [prov |-> [p EXCEPT !.irsdk = "None", !.is_connected = FALSE],
               shutdown_called |-> TRUE, raised |-> FALSE]

\* disconnect() in full: the provider it leaves, whether shutdown() was called, and
\* whether disconnect() raised.  Without a handle it returns at once; an exception of
\* shutdown() is passed over and the handle is cleared all the same
disconnect(p, shutdown) ==
    IF p.irsdk = "None"
    THEN [prov |-> p, shutdown_called |-> FALSE, raised |-> FALSE]
    ELSE [prov |-> [p EXCEPT !.irsdk = "None", !.is_connected = FALSE],
          shutdown_called |-> TRUE, raised |-> FALSE]

(***************************************************************************)
(* Outbound messages.                                                      *)
(***************************************************************************)
\* variant: the configuration goes out under the name of the service's acknowledgement
SessionUpdate_misnamed(track, situation, telemetry) ==
    [type |-> "session.updated",
     instructions |-> << DictGet(track, "name", "Unknown"),
                         DictGet(situation, "position", "Unknown"),
                         DictGet(telemetry, "speed_mph", "0") >>,
     tools |-> <<"get_telemetry", "get_racing_situation", "get_track_info">>]

SessionUpdate(track, situation, telemetry) ==
    [type |-> "session.update",
     instructions |-> << DictGet(track, "name", "Unknown"),
                         DictGet(situation, "position", "Unknown"),
                         DictGet(telemetry, "speed_mph", "0") >>,
     tools |-> <<"get_telemetry", "get_racing_situation", "get_track_info">>]

AudioAppend(data) == [type |-> "input_audio_buffer.append", audio |-> b64encode(data)]

\* the append message of each frame the microphone can deliver, computed once
AppendOf == [data \in {Frame(k) : k \in 1..MaxCaptured} |-> AudioAppend(data)]

\* variant: the call id is read from the wrong key of the event and comes out as None
FunctionCallOutput_no_id(call_id, result) ==
    [type |-> "conversation.item.create", call_id |-> "None", output |-> json_dumps(result)]

FunctionCallOutput(call_id, result) ==
    [type |-> "conversation.item.create", call_id |-> call_id, output |-> json_dumps(result)]

ResponseCreate == [type |-> "response.create"]

(***************************************************************************)
(* self.input_queue = queue.Queue(): maxsize 0 means no capacity limit.    *)
(***************************************************************************)
QueueMaxsize == 0

\* variant: the queue was created with maxsize=1
queue_full_at_one(q) == Len(q) >= 1

\* Queue.full(): put() blocks while it holds
queue_full(q) == QueueMaxsize > 0 /\ Len(q) >= QueueMaxsize

\* variant: a queue of capacity one that drops the new item when it is full
queue_put_drop_newest(q, item) == IF Len(q) >= 1 THEN q ELSE Append(q, item)

\* Queue.put(item) once there is room
queue_put(q, item) == Append(q, item)

(***************************************************************************)
(* run(): connect, configure_session, gather, cleanup.                     *)
(***************************************************************************)
\* no coroutine is inside a call that holds the thread of the event loop: send_audio is
\* not waiting in the synchronous input_queue.get, handle_messages is not inside a getter
\* of the provider
EventLoopFree == send_pc # "get" /\ recv_pc # "dispatch"

Raise(exc) ==
    /\ run_pc' = "cleanup"
    /\ run_exc' = exc

\* variant: the sim is attached before the websocket is opened
connect_provider_first(ws_ok, startup, sim) ==
    /\ run_pc = "start"
    /\ LET attached == racing_connect(prov, irsdk_module, startup, sim)
       IN /\ prov' = attached.prov
          /\ startup_outcome' = IF irsdk_module THEN startup ELSE "none"
          /\ IF attached.raised
             THEN Raise("RuntimeError") /\ UNCHANGED << ws, ws_alive >>
             ELSE IF ~ws_ok
                  THEN Raise("ConnectError") /\ UNCHANGED << ws, ws_alive >>
                  ELSE /\ ws' = "open"
                       /\ ws_alive' = TRUE
                       /\ run_pc' = "connected"
                       /\ UNCHANGED run_exc
    /\ UNCHANGED << irsdk_module, input_queue, captured, mic, send_pc, recv_pc,
                    speaker_stream, streams, played, sent, n_handled, session,
                    calls, exit_cause >>
    /\ UNCHANGED << cleanup_exc, ignored, status, agent, app >>

\* RealtimeAPIClient.connect: open the websocket, then attach to the sim
connect(ws_ok, startup, sim) ==
    /\ run_pc = "start"
    /\ IF ~ws_ok
       THEN /\ Raise("ConnectError")
            /\ UNCHANGED << ws, ws_alive, prov, startup_outcome >>
       ELSE LET attached == racing_connect(prov, irsdk_module, startup, sim)
            IN /\ ws' = "open"
               /\ ws_alive' = TRUE
               /\ prov' = attached.prov
               /\ startup_outcome' = IF irsdk_module THEN startup ELSE "none"
               /\ IF attached.raised
                  THEN Raise("RuntimeError")
                  ELSE run_pc' = "connected" /\ UNCHANGED run_exc
    /\ UNCHANGED << irsdk_module, input_queue, captured, mic, send_pc, recv_pc,
                    speaker_stream, streams, played, sent, n_handled, session,
                    calls, exit_cause >>
    /\ UNCHANGED << cleanup_exc, ignored, status, agent, app >>

\* variant: run() starts the loops without sending the configuration
configure_session_deferred ==
    /\ run_pc = "connected"
    /\ IF ws_alive
       THEN /\ run_pc' = "gather"
            /\ send_pc' = "start"
            /\ recv_pc' = "loop"
            /\ UNCHANGED << run_exc, sent >>
       ELSE /\ Raise("ConnectionClosed")
            /\ UNCHANGED << sent, send_pc, recv_pc >>
    /\ UNCHANGED << irsdk_module, ws, ws_alive, prov, input_queue, captured, mic,
                    speaker_stream, streams, played, n_handled, session,
                    calls, exit_cause, startup_outcome >>
    /\ UNCHANGED << cleanup_exc, ignored, status, agent, app >>

\* RealtimeAPIClient.configure_session, then run() enters asyncio.gather
configure_session ==
    /\ run_pc = "connected"
    /\ IF ws_alive
       THEN /\ sent' = Append(sent, SessionUpdate(get_track_info(prov),
                                                  get_racing_situation(prov),
                                                  get_telemetry(prov)))
            /\ run_pc' = "gather"
            /\ send_pc' = "start"
            /\ recv_pc' = "loop"
            /\ UNCHANGED run_exc
       ELSE /\ Raise("ConnectionClosed")
            /\ UNCHANGED << sent, send_pc, recv_pc >>
    /\ UNCHANGED << irsdk_module, ws, ws_alive, prov, input_queue, captured, mic,
                    speaker_stream, streams, played, n_handled, session,
                    calls, exit_cause, startup_outcome >>
    /\ UNCHANGED << cleanup_exc, ignored, status, agent, app >>

\* asyncio.gather returns once both coroutines have returned
gather_returns ==
    /\ run_pc = "gather"
    /\ send_pc = "done"
    /\ recv_pc = "done"
    /\ run_pc' = "cleanup"
    /\ UNCHANGED << run_exc, irsdk_module, ws, ws_alive, prov, input_queue, captured, mic,
                    send_pc, recv_pc, speaker_stream, streams, played, sent, n_handled,
                    session, calls, exit_cause, startup_outcome >>
    /\ UNCHANGED << cleanup_exc, ignored, status, agent, app >>

\* asyncio.gather re-raises the exception of send_audio as soon as it is raised
gather_raises ==
    /\ run_pc = "gather"
    /\ send_pc = "raised"
    /\ EventLoopFree
    /\ Raise("AudioDeviceError")
    /\ UNCHANGED << irsdk_module, ws, ws_alive, prov, input_queue, captured, mic,
                    send_pc, recv_pc, speaker_stream, streams, played, sent, n_handled,
                    session, calls, exit_cause, startup_outcome >>
    /\ UNCHANGED << cleanup_exc, ignored, status, agent, app >>

\* variant: close() is called without the `if self.ws` test, and raises AttributeError
\* on None
cleanup_unchecked(close) ==
    /\ run_pc = "cleanup"
    /\ IF close = "raises" \/ ws = "None"
       THEN /\ cleanup_exc' = IF ws = "None" THEN "AttributeError" ELSE "CloseError"
            /\ UNCHANGED << ws, ws_alive, prov >>
       ELSE /\ ws' = "closed"
            /\ ws_alive' = FALSE
            /\ prov' = racing_disconnect(prov)
            /\ UNCHANGED cleanup_exc
    /\ run_pc' = "done"
    /\ UNCHANGED << run_exc, irsdk_module, input_queue, captured, mic, send_pc, recv_pc,
                    speaker_stream, streams, played, sent, n_handled, session,
                    calls, exit_cause, startup_outcome >>
    /\ UNCHANGED << ignored, status, agent, app >>

\* RealtimeAPIClient.cleanup, from the finally of run().  close: what `await
\* self.ws.close()` does; when it raises (the connection fails under the closing
\* handshake, or the task is cancelled while it waits) the rest of cleanup is skipped
cleanup(close) ==
    /\ run_pc = "cleanup"
    /\ close = "raises" => ws # "None"
    /\ IF close = "raises"
       THEN /\ cleanup_exc' = "CloseError"
            /\ UNCHANGED << ws, ws_alive, prov >>
       ELSE /\ IF ws # "None"
               THEN ws' = "closed" /\ ws_alive' = FALSE
               ELSE UNCHANGED << ws, ws_alive >>
            /\ prov' = racing_disconnect(prov)
            /\ UNCHANGED cleanup_exc
    /\ run_pc' = "done"
    /\ UNCHANGED << run_exc, irsdk_module, input_queue, captured, mic, send_pc, recv_pc,
                    speaker_stream, streams, played, sent, n_handled, session,
                    calls, exit_cause, startup_outcome >>
    /\ UNCHANGED << ignored, status, agent, app >>

(***************************************************************************)
(* send_audio and the microphone callback.                                 *)
(***************************************************************************)
\* send_audio up to the first pass of its loop: sd.InputStream(...), `with stream`
send_audio_start(outcome) ==
    /\ send_pc = "start"
    /\ EventLoopFree
    /\ CASE outcome = "ok" -> mic' = "on" /\ send_pc' = "loop"
         [] outcome = "ctor_fails" -> mic' = "off" /\ send_pc' = "raised"
         [] outcome = "start_fails" -> mic' = "closed" /\ send_pc' = "done"
    /\ UNCHANGED << run_pc, run_exc, irsdk_module, ws, ws_alive, prov, input_queue, captured,
                    recv_pc, speaker_stream, streams, played, sent, n_handled, session,
                    calls, exit_cause, startup_outcome >>
    /\ UNCHANGED << cleanup_exc, ignored, status, agent, app >>

audio_input_callback ==
    /\ mic = "on"
    /\ captured < MaxCaptured
    /\ n_handled + captured < MaxInputs
    /\ ~queue_full(input_queue)
    /\ input_queue' = queue_put(input_queue, Frame(captured + 1))
    /\ captured' = captured + 1
    /\ UNCHANGED << run_pc, run_exc, irsdk_module, ws, ws_alive, prov, mic, send_pc, recv_pc,
                    speaker_stream, streams, played, sent, n_handled, session,
                    calls, exit_cause, startup_outcome >>
    /\ UNCHANGED << cleanup_exc, ignored, status, agent, app >>

\* self.input_queue.get(timeout=0.1) finds the queue empty: the synchronous call waits in
\* the thread of the event loop, which runs no other coroutine meanwhile
queue_get_waits ==
    /\ send_pc = "loop"
    /\ EventLoopFree
    /\ input_queue = <<>>
    /\ send_pc' = "get"
    /\ UNCHANGED << run_pc, run_exc, irsdk_module, ws, ws_alive, prov, input_queue, captured,
                    mic, recv_pc, speaker_stream, streams, played, sent, n_handled, session,
                    calls, exit_cause, startup_outcome >>
    /\ UNCHANGED << cleanup_exc, ignored, status, agent, app >>

\* variant: get() is called without a timeout and keeps waiting for a frame
queue_Empty_never ==
    /\ send_pc = "get"
    /\ input_queue = <<>>
    /\ send_pc' = "get"
    /\ UNCHANGED << run_pc, run_exc, irsdk_module, ws, ws_alive, prov, input_queue, captured,
                    mic, recv_pc, speaker_stream, streams, played, sent, n_handled, session,
                    calls, exit_cause, startup_outcome >>
    /\ UNCHANGED << cleanup_exc, ignored, status, agent, app >>

\* the timeout expires with the queue still empty: queue.Empty is raised and caught, and
\* the loop yields in asyncio.sleep(0.01) before it tries again
queue_Empty ==
    /\ send_pc = "get"
    /\ input_queue = <<>>
    /\ send_pc' = "loop"
    /\ UNCHANGED << run_pc, run_exc, irsdk_module, ws, ws_alive, prov, input_queue, captured,
                    mic, recv_pc, speaker_stream, streams, played, sent, n_handled, session,
                    calls, exit_cause, startup_outcome >>
    /\ UNCHANGED << cleanup_exc, ignored, status, agent, app >>

\* variant: the loop takes the newest frame of the queue
send_audio_newest_first ==
    /\ send_pc \in {"loop", "get"}
    /\ recv_pc # "dispatch"
    /\ input_queue # <<>>
    /\ input_queue' = SubSeq(input_queue, 1, Len(input_queue) - 1)
    /\ IF ws = "open" /\ ws_alive
       THEN /\ sent' = Append(sent, AppendOf[input_queue[Len(input_queue)]])
            /\ send_pc' = "loop"
            /\ UNCHANGED mic
       ELSE /\ mic' = "closed"
            /\ send_pc' = "done"
            /\ UNCHANGED sent
    /\ UNCHANGED << run_pc, run_exc, irsdk_module, ws, ws_alive, prov, captured, recv_pc,
                    speaker_stream, streams, played, n_handled, session,
                    calls, exit_cause, startup_outcome >>
    /\ UNCHANGED << cleanup_exc, ignored, status, agent, app >>

\* one pass of the loop of send_audio that gets a frame from the queue, at once or while
\* it waits in get(): the frame is sent and the loop yields in asyncio.sleep(0.01)
send_audio ==
    /\ send_pc \in {"loop", "get"}
    /\ recv_pc # "dispatch"
    /\ input_queue # <<>>
    /\ input_queue' = Tail(input_queue)
    /\ IF ws = "open" /\ ws_alive
       THEN /\ sent' = Append(sent, AppendOf[Head(input_queue)])
            /\ send_pc' = "loop"
            /\ UNCHANGED mic
       ELSE /\ mic' = "closed"
            /\ send_pc' = "done"
            /\ UNCHANGED sent
    /\ UNCHANGED << run_pc, run_exc, irsdk_module, ws, ws_alive, prov, captured, recv_pc,
                    speaker_stream, streams, played, n_handled, session,
                    calls, exit_cause, startup_outcome >>
    /\ UNCHANGED << cleanup_exc, ignored, status, agent, app >>

(***************************************************************************)
(* handle_messages.                                                        *)
(***************************************************************************)
UnknownFunction == << <<"error", JsonStr("Unknown function")>> >>

\* variant: the chain has no else branch, an unknown name raises
Dispatch_no_else(function_name, p) ==
    IF function_name = "get_telemetry"
    THEN [result |-> get_telemetry(p), invoked |-> "get_telemetry", raised |-> FALSE]
    ELSE IF function_name = "get_racing_situation"
    THEN [result |-> get_racing_situation(p), invoked |-> "get_racing_situation",
          raised |-> FALSE]
    ELSE IF function_name = "get_track_info"
    THEN [result |-> get_track_info(p), invoked |-> "get_track_info", raised |-> FALSE]
    ELSE [result |-> <<>>, invoked |-> "none", raised |-> TRUE]

\* variant: the get_track_info branch calls get_racing_situation
Dispatch_swapped(function_name, p) ==
    IF function_name = "get_telemetry"
    THEN [result |-> get_telemetry(p), invoked |-> "get_telemetry", raised |-> FALSE]
    ELSE IF function_name = "get_racing_situation"
    THEN [result |-> get_racing_situation(p), invoked |-> "get_racing_situation",
          raised |-> FALSE]
    ELSE IF function_name = "get_track_info"
    THEN [result |-> get_racing_situation(p), invoked |-> "get_racing_situation",
          raised |-> FALSE]
    ELSE [result |-> UnknownFunction, invoked |-> "none", raised |-> FALSE]

\* variant: a getter is called only on a live provider, the chain raises otherwise
Dispatch_raises_offline(function_name, p) ==
    IF function_name \in {"get_telemetry", "get_racing_situation", "get_track_info"}
    THEN IF p.irsdk # "None" /\ p.is_connected
         THEN [result |-> IF function_name = "get_telemetry" THEN get_telemetry(p)
                          ELSE IF function_name = "get_racing_situation"
                               THEN get_racing_situation(p)
                          ELSE get_track_info(p),
               invoked |-> function_name, raised |-> FALSE]
         ELSE [result |-> <<>>, invoked |-> function_name, raised |-> TRUE]
    ELSE [result |-> UnknownFunction, invoked |-> "none", raised |-> FALSE]

\* the if/elif chain that maps the requested function to a provider getter: the result,
\* the getter it invoked, and whether the branch raised
Dispatch(function_name, p) ==
    IF function_name = "get_telemetry"
    THEN [result |-> get_telemetry(p), invoked |-> "get_telemetry", raised |-> FALSE]
    ELSE IF function_name = "get_racing_situation"
    THEN [result |-> get_racing_situation(p), invoked |-> "get_racing_situation",
          raised |-> FALSE]
    ELSE IF function_name = "get_track_info"
    THEN [result |-> get_track_info(p), invoked |-> "get_track_info", raised |-> FALSE]
    ELSE [result |-> UnknownFunction, invoked |-> "none", raised |-> FALSE]

\* variant: a stream is opened for every delta
NeedsStream_always(stream) == TRUE

\* `if not self.speaker_stream`
NeedsStream(stream) == stream = 0

\* the streams after self.speaker_stream.stop(); self.speaker_stream.close()
StopAndClose(ss, stream) == [ss EXCEPT ![stream] = "closed"]

\* the except and finally clauses: the loop is over, an open speaker stream is closed
\* (self.speaker_stream keeps its value)
LoopExit(ss, stream, cause) ==
    /\ recv_pc' = "done"
    /\ exit_cause' = cause
    /\ streams' = IF stream # 0 THEN StopAndClose(ss, stream) ELSE ss
    /\ speaker_stream' = stream

\* variant: the payload is written as received, without base64.b64decode
OnAudioDelta_raw(event, device) ==
    IF event.delta = <<>>
    THEN UNCHANGED << recv_pc, exit_cause, speaker_stream, streams, played >>
    ELSE LET opening == NeedsStream(speaker_stream)
             opened == IF opening THEN Append(streams, "open") ELSE streams
             stream == IF opening THEN Len(streams) + 1 ELSE speaker_stream
         IN IF opening /\ device = "open_fails"
            THEN /\ LoopExit(streams, speaker_stream, "device")
                 /\ UNCHANGED played
            ELSE IF device = "write_fails"
                 THEN /\ LoopExit(opened, stream, "device")
                      /\ UNCHANGED played
            ELSE /\ streams' = opened
                 /\ speaker_stream' = stream
                 /\ played' = Append(played, <<stream, event.delta>>)
                 /\ UNCHANGED << recv_pc, exit_cause >>

\* response.audio.delta; device: what the sound device does on open and write
OnAudioDelta(event, device) ==
    IF event.delta = <<>>
    THEN UNCHANGED << recv_pc, exit_cause, speaker_stream, streams, played >>
    ELSE LET audio_data == b64decode(event.delta)
             opening == NeedsStream(speaker_stream)
             opened == IF opening THEN Append(streams, "open") ELSE streams
             stream == IF opening THEN Len(streams) + 1 ELSE speaker_stream
         IN IF opening /\ device = "open_fails"
            THEN /\ LoopExit(streams, speaker_stream, "device")
                 /\ UNCHANGED played
            ELSE IF device = "write_fails"
                 THEN /\ LoopExit(opened, stream, "device")
                      /\ UNCHANGED played
            ELSE /\ streams' = opened
                 /\ speaker_stream' = stream
                 /\ played' = Append(played, <<stream, audio_data>>)
                 /\ UNCHANGED << recv_pc, exit_cause >>

\* variant: the stream is stopped and closed but self.speaker_stream keeps it
OnAudioDone_keeps_reference ==
    /\ IF speaker_stream # 0
       THEN streams' = StopAndClose(streams, speaker_stream)
       ELSE UNCHANGED streams
    /\ UNCHANGED << speaker_stream, recv_pc, exit_cause, played >>

\* response.audio.done
OnAudioDone ==
    /\ IF speaker_stream # 0
       THEN /\ streams' = StopAndClose(streams, speaker_stream)
            /\ speaker_stream' = 0
       ELSE UNCHANGED << speaker_stream, streams >>
    /\ UNCHANGED << recv_pc, exit_cause, played >>

\* every state a provider can be in
ProviderStates ==
    [irsdk : {"None", "handle"}, is_connected : BOOLEAN, sim : SimStates \cup {SimOff}]

\* the dispatch of each function call in each provider state and the reply built from
\* its result, computed once
Dispatched ==
    [call \in {<<event, p>> : event \in ToolEvents, p \in ProviderStates} |->
        LET called == Dispatch(call[1].name, call[2])
        IN [called |-> called,
            response |-> IF called.raised THEN <<>>
                         ELSE FunctionCallOutput(call[1].call_id, called.result)]]

\* variant: the reply is left to a background task and the loop takes the next message
\* at once
OnFunctionCall_detached(event) ==
    LET called == Dispatched[<<event, prov>>].called
    IN /\ calls' = Append(calls, [name |-> event.name, call_id |-> event.call_id,
                                  prov |-> prov, result |-> called.result,
                                  invoked |-> called.invoked])
       /\ sent' = Append(sent, Dispatched[<<event, prov>>].response)
       /\ UNCHANGED << recv_pc, exit_cause, speaker_stream, streams, played >>

\* variant: the assistant is told to respond before the result is sent
OnFunctionCall_continue_first(event) ==
    LET called == Dispatched[<<event, prov>>].called
    IN /\ calls' = Append(calls, [name |-> event.name, call_id |-> event.call_id,
                                  prov |-> prov, result |-> called.result,
                                  invoked |-> called.invoked])
       /\ sent' = Append(sent, ResponseCreate)
       /\ recv_pc' = "tool_reply"
       /\ UNCHANGED << exit_cause, speaker_stream, streams, played >>

\* response.function_call_arguments.done, up to the first ws.send
OnFunctionCall(event) ==
    LET function_name == event.name
        call_id == event.call_id
        called == Dispatched[<<event, prov>>].called
    IN /\ calls' = Append(calls, [name |-> function_name, call_id |-> call_id,
                                  prov |-> prov, result |-> called.result,
                                  invoked |-> called.invoked])
       /\ IF called.raised
          THEN /\ LoopExit(streams, speaker_stream, "dispatch")
               /\ UNCHANGED << played, sent >>
          ELSE /\ sent' = Append(sent, Dispatched[<<event, prov>>].response)
               /\ recv_pc' = "tool_reply"
               /\ UNCHANGED << exit_cause, speaker_stream, streams, played >>

\* the event types whose branch only prints (or passes)
PrintOnly ==
    { "session.created", "session.updated", "conversation.item.created", "error",
      "input_audio_buffer.speech_started", "input_audio_buffer.speech_stopped" }

\* variant: a status event makes the controller discard the audio sent so far
OnPrintOnly_clears ==
    /\ sent' = Append(sent, [type |-> "input_audio_buffer.clear"])
    /\ UNCHANGED << recv_pc, exit_cause, speaker_stream, streams, played, calls >>

\* a branch that only prints: the loop goes on to the next message
OnPrintOnly ==
    UNCHANGED << recv_pc, exit_cause, speaker_stream, streams, played, sent, calls >>

\* variant: a final else that raises on an event type the chain does not know
NoBranch_raises ==
    /\ LoopExit(streams, speaker_stream, "unknown")
    /\ UNCHANGED << played, sent, calls >>

\* no test of the chain matches and there is no else: nothing is executed
NoBranch ==
    UNCHANGED << recv_pc, exit_cause, speaker_stream, streams, played, sent, calls >>

\* what the service has announced once `message` has arrived
Announced(phase, message) ==
    IF message.type = "session.created" THEN "created"
    ELSE IF message.type = "session.updated" /\ phase = "created" THEN "updated"
    ELSE phase

\* what the console shows of the speech detection once `message` has been handled
Shown(shown, message) ==
    IF message.type = "input_audio_buffer.speech_started" THEN "listening"
    ELSE IF message.type = "input_audio_buffer.speech_stopped" THEN "processing"
    ELSE shown

\* one message of `async for message in self.ws` and its branch of the if/elif chain
handle_messages(message, device) ==
    /\ recv_pc = "loop"
    /\ EventLoopFree
    /\ run_pc # "done"
    /\ ws = "open"
    /\ ws_alive
    /\ n_handled < MaxEvents
    /\ n_handled + captured < MaxInputs
    /\ device = "open_fails" => (message.type = "response.audio.delta" /\ message.delta # <<>>
                                 /\ NeedsStream(speaker_stream))
    /\ device = "write_fails" => (message.type = "response.audio.delta" /\ message.delta # <<>>)
    /\ n_handled' = n_handled + 1
    /\ session' = Announced(session, message)
    /\ CASE message = MalformedMessage ->
              /\ LoopExit(streams, speaker_stream, "json")
              /\ UNCHANGED << played, sent, calls >>
         [] message.type = "response.audio.delta" ->
              /\ OnAudioDelta(message, device)
              /\ UNCHANGED << sent, calls >>
         [] message.type = "response.audio.done" ->
              /\ OnAudioDone
              /\ UNCHANGED << sent, calls >>
         [] message.type = "response.function_call_arguments.done" ->
              OnFunctionCall(message)
         [] message # MalformedMessage /\ message.type \in PrintOnly ->
              OnPrintOnly
         [] OTHER ->
              NoBranch
    /\ ignored' = (ignored \/ (message # MalformedMessage /\ message.type \notin Recognized))
    /\ status' = Shown(status, message)
    /\ UNCHANGED << run_pc, run_exc, irsdk_module, ws, ws_alive, prov, input_queue, captured,
                    mic, send_pc, startup_outcome >>
    /\ UNCHANGED << cleanup_exc, agent, app >>

\* A function call whose getter does not return (the provider stalls in a read).  The call
\* is made synchronously, inside the coroutine and with no timeout around it: the thread
\* of the event loop stays in it
dispatch_stalls(event) ==
    /\ recv_pc = "loop"
    /\ EventLoopFree
    /\ run_pc # "done"
    /\ ws = "open"
    /\ ws_alive
    /\ n_handled < MaxEvents
    /\ n_handled + captured < MaxInputs
    /\ event.name \in ToolNames
    /\ _ready(prov)
    /\ n_handled' = n_handled + 1
    /\ recv_pc' = "dispatch"
    /\ UNCHANGED << run_pc, run_exc, irsdk_module, ws, ws_alive, prov, input_queue, captured,
                    mic, send_pc, speaker_stream, streams, played, sent, session, calls,
                    exit_cause, startup_outcome >>
    /\ UNCHANGED << cleanup_exc, ignored, status, agent, app >>

\* variant: the branch goes back to the loop without sending response.create
function_call_reply_skipped ==
    /\ recv_pc = "tool_reply"
    /\ EventLoopFree
    /\ run_pc # "done"
    /\ recv_pc' = "loop"
    /\ UNCHANGED << run_pc, run_exc, irsdk_module, ws, ws_alive, prov, input_queue, captured,
                    mic, send_pc, played, n_handled, session, calls, startup_outcome,
                    sent, exit_cause, speaker_stream, streams >>
    /\ UNCHANGED << cleanup_exc, ignored, status, agent, app >>

\* the second ws.send of the function-call branch: response.create
function_call_reply ==
    /\ recv_pc = "tool_reply"
    /\ EventLoopFree
    /\ run_pc # "done"
    /\ IF ws = "open" /\ ws_alive
       THEN /\ sent' = Append(sent, ResponseCreate)
            /\ recv_pc' = "loop"
            /\ UNCHANGED << exit_cause, speaker_stream, streams >>
       ELSE /\ LoopExit(streams, speaker_stream, "transport")
            /\ UNCHANGED sent
    /\ UNCHANGED << run_pc, run_exc, irsdk_module, ws, ws_alive, prov, input_queue, captured,
                    mic, send_pc, played, n_handled, session, calls, startup_outcome >>
    /\ UNCHANGED << cleanup_exc, ignored, status, agent, app >>

\* variant: the loop reconnects when the connection is gone
receive_ends_reconnects ==
    /\ recv_pc = "loop"
    /\ EventLoopFree
    /\ ~(ws = "open" /\ ws_alive)
    /\ ws' = "open"
    /\ ws_alive' = TRUE
    /\ UNCHANGED << run_pc, run_exc, irsdk_module, prov, input_queue, captured,
                    mic, send_pc, played, sent, n_handled, session, calls, startup_outcome,
                    recv_pc, exit_cause, streams, speaker_stream >>
    /\ UNCHANGED << cleanup_exc, ignored, status, agent, app >>

\* the iteration over self.ws ends (or raises) because the connection is gone
receive_ends ==
    /\ recv_pc = "loop"
    /\ EventLoopFree
    /\ ~(ws = "open" /\ ws_alive)
    /\ LoopExit(streams, speaker_stream, "transport")
    /\ UNCHANGED << run_pc, run_exc, irsdk_module, ws, ws_alive, prov, input_queue, captured,
                    mic, send_pc, played, sent, n_handled, session, calls, startup_outcome >>
    /\ UNCHANGED << cleanup_exc, ignored, status, agent, app >>

(***************************************************************************)
(* asyncio.run(main()): the operator's Ctrl+C, and the end of the event     *)
(* loop.                                                                   *)
(***************************************************************************)
\* variant: handle_messages has no finally clause, the speaker stream is left as it is
LoopCancelled_no_finally(ss, stream) ==
    /\ recv_pc' = "done"
    /\ exit_cause' = "cancelled"
    /\ streams' = ss
    /\ speaker_stream' = stream

\* CancelledError thrown into handle_messages: `except Exception` does not catch it,
\* the finally clause runs
LoopCancelled(ss, stream) == LoopExit(ss, stream, "cancelled")

\* Ctrl+C while run() is in its try block.  It reaches run() as KeyboardInterrupt, which
\* run() catches, or as the CancelledError the event loop throws into the main task,
\* which passes through; either way the tasks of gather are cancelled and have ended
\* before the finally clause of run() starts.
interrupt ==
    /\ run_pc \in {"start", "connected", "gather"}
    /\ EventLoopFree
    /\ n_handled + captured <= MaxBeforeInterrupt
    /\ run_pc' = "cleanup"
    /\ run_exc' = "Interrupted"
    /\ IF send_pc \in {"start", "loop"}
       THEN /\ send_pc' = "done"
            /\ mic' = IF mic = "on" THEN "closed" ELSE mic
       ELSE UNCHANGED << send_pc, mic >>
    /\ IF recv_pc \in {"loop", "tool_reply"}
       THEN LoopCancelled(streams, speaker_stream)
       ELSE UNCHANGED << recv_pc, exit_cause, streams, speaker_stream >>
    /\ UNCHANGED << irsdk_module, ws, ws_alive, prov, input_queue, captured, played, sent,
                    n_handled, session, calls, startup_outcome, cleanup_exc >>
    /\ UNCHANGED << ignored, status, agent, app >>

\* run() has ended and handle_messages is still running (gather had re-raised the
\* exception of send_audio): asyncio.run cancels the tasks that are left
asyncio_run_exit ==
    /\ run_pc = "done"
    /\ recv_pc \in {"loop", "tool_reply"}
    /\ LoopCancelled(streams, speaker_stream)
    /\ UNCHANGED << run_pc, run_exc, irsdk_module, ws, ws_alive, prov, input_queue, captured,
                    mic, send_pc, played, sent, n_handled, session, calls, startup_outcome,
                    cleanup_exc >>
    /\ UNCHANGED << ignored, status, agent, app >>

(***************************************************************************)
(* The environment: the service or the network drops the connection; the   *)
(* simulator exits behind the handle.                                      *)
(***************************************************************************)
transport_fails ==
    /\ ws = "open"
    /\ ws_alive
    /\ ws_alive' = FALSE
    /\ UNCHANGED << run_pc, run_exc, irsdk_module, ws, prov, input_queue, captured, mic,
                    send_pc, recv_pc, speaker_stream, streams, played, sent, n_handled,
                    session, calls, exit_cause, startup_outcome >>
    /\ UNCHANGED << cleanup_exc, ignored, status, agent, app >>

\* the simulator exits: the handle's is_connected turns false
sim_stops ==
    /\ run_pc \in {"connected", "gather"}
    /\ prov.irsdk = "handle"
    /\ prov.is_connected
    /\ prov' = [prov EXCEPT !.is_connected = FALSE, !.sim = SimOff]
    /\ UNCHANGED << run_pc, run_exc, irsdk_module, ws, ws_alive, input_queue, captured, mic,
                    send_pc, recv_pc, speaker_stream, streams, played, sent, n_handled,
                    session, calls, exit_cause, startup_outcome >>
    /\ UNCHANGED << cleanup_exc, ignored, status, agent, app >>

Next ==
    \/ \E ws_ok \in BOOLEAN, startup \in StartupOutcomes, sim \in SimStates :
           connect(ws_ok, startup, sim)
    \/ configure_session
    \/ gather_returns
    \/ gather_raises
    \/ \E close \in {"ok", "raises"} : cleanup(close)
    \/ \E outcome \in {"ok", "ctor_fails", "start_fails"} : send_audio_start(outcome)
    \/ audio_input_callback
    \/ queue_get_waits
    \/ queue_Empty
    \/ send_audio
    \/ \E message \in Inbox[Len(played) + 1], device \in {"ok", "open_fails", "write_fails"} :
           handle_messages(message, device)
    \/ \E event \in ToolEvents : dispatch_stalls(event)
    \/ function_call_reply
    \/ receive_ends
    \/ interrupt
    \/ asyncio_run_exit
    \/ transport_fails
    \/ sim_stops

Spec == Init /\ [][Next]_vars

\* the inbound messages of the runs checked for progress: one message for each kind of
\* branch of handle_messages
FairMessages(k) ==
    { PlainEvent("session.created"), PlainEvent("response.audio.done"),
      AudioDelta(b64encode(Chunk(k))),
      Event("response.function_call_arguments.done", <<>>, "get_telemetry", "call_a"),
      ErrorEvent("invalid_session"), MalformedMessage }

FairInbox == [k \in 1..(MaxEvents + 1) |-> FairMessages(k)]

\* the steps of Next, with the inbound messages taken from FairInbox
FairNext ==
    \/ \E ws_ok \in BOOLEAN, startup \in StartupOutcomes, sim \in SimStates :
           connect(ws_ok, startup, sim)
    \/ configure_session
    \/ gather_returns
    \/ gather_raises
    \/ \E close \in {"ok", "raises"} : cleanup(close)
    \/ \E outcome \in {"ok", "ctor_fails", "start_fails"} : send_audio_start(outcome)
    \/ audio_input_callback
    \/ queue_get_waits
    \/ queue_Empty
    \/ send_audio
    \/ \E message \in FairInbox[Len(played) + 1], device \in {"ok", "open_fails", "write_fails"} :
           handle_messages(message, device)
    \/ \E event \in FairInbox[Len(played) + 1] : dispatch_stalls(event)
    \/ function_call_reply
    \/ receive_ends
    \/ interrupt
    \/ asyncio_run_exit
    \/ transport_fails
    \/ sim_stops

\* The event loop runs every coroutine that is ready each time the running one yields,
\* a get() that has an item returns, and a timeout that was set expires: the steps of
\* send_audio are weakly fair, the steps of handle_messages that end its loop are strongly
\* fair (they are ready whenever send_audio has yielded), and asyncio.run does cancel
\* the tasks left when run() has ended.  The environment (service, operator, devices)
\* owes nothing.
FairSpec ==
    /\ Init
    /\ [][FairNext]_vars
    /\ WF_vars(queue_Empty)
    /\ WF_vars(send_audio)
    /\ SF_vars(receive_ends)
    /\ SF_vars(function_call_reply)
    /\ WF_vars(asyncio_run_exit)

(***************************************************************************)
(* RacingAIAgent (src/ai_agent.py): the constructor and the calls it       *)
(* forwards to its RacingMCPClient.  A string that may be None is "None"   *)
(* when it is None.                                                        *)
(***************************************************************************)
\* the openai_api_key argument: omitted, empty, or a key
ArgKeys == {"None", "", "sk-arg", "sk-other"}

\* OPENAI_API_KEY in the environment of the process: unset, empty, or a key
EnvKeys == {"None", "", "sk-env"}

\* OPENAI_API_KEY in the .env file: no such line (or no file), or a key
DotenvKeys == {"None", "sk-dotenv"}

\* the model argument: "None" when the caller omits it
ModelArgs == {"None", "gpt-3.5-turbo", "gpt-4o"}

\* the default of the model parameter
DefaultModel == "gpt-4"

\* load_dotenv(): a variable of the .env file is set unless the environment has it
load_dotenv(environ, dotenv) == IF environ = "None" THEN dotenv ELSE environ

\* Python's `a or b` on optional strings
Or(a, b) == IF a \notin {"None", ""} THEN a ELSE b

\* variant: only a missing key is rejected, an empty one is accepted
KeyMissing_none_only(api_key) == api_key = "None"

\* `not api_key`
KeyMissing(api_key) == api_key \in {"None", ""}

\* RacingMCPClient.list_available_tools
list_available_tools(p) == <<"get_racing_situation", "get_telemetry", "get_track_info">>

\* what RacingAIAgent(openai_api_key, model) leaves in a process whose environment holds
\* `environ` and whose .env file holds `dotenv`: the agent, or the exception raised.
\* request, before, returned and raised describe the last analyze_racing_situation call,
\* disconnected the last disconnect_from_server call
RacingAIAgent(openai_api_key, model, environ, dotenv) ==
    LET loaded == load_dotenv(environ, dotenv)
        api_key == Or(openai_api_key, loaded)
        args == [openai_api_key |-> openai_api_key, model |-> model,
                 environ |-> environ, dotenv |-> dotenv]
    IN IF KeyMissing(api_key)
       THEN [phase |-> "raised", exc |-> "ValueError", args |-> args,
             environ |-> loaded, client |-> "None", model |-> "None",
             mcp_client |-> <<>>, conversation_history |-> <<>>, listed |-> <<>>,
             request |-> <<>>, before |-> <<>>, returned |-> "None", raised |-> FALSE,
             disconnected |-> <<>>]
       ELSE [phase |-> "constructed", exc |-> "none", args |-> args,
             environ |-> loaded, client |-> api_key,
             model |-> IF model = "None" THEN DefaultModel ELSE model,
             mcp_client |-> <<NewProvider>>, conversation_history |-> <<>>,
             listed |-> <<>>,
             request |-> <<>>, before |-> <<>>, returned |-> "None", raised |-> FALSE,
             disconnected |-> <<>>]

\* the constructor call
RacingAIAgent_init(openai_api_key, model, environ, dotenv) ==
    /\ agent = NoAgent
    /\ agent' = RacingAIAgent(openai_api_key, model, environ, dotenv)
    /\ UNCHANGED << coach_vars, app >>

\* RacingAIAgent.connect_to_server
connect_to_server(startup, sim) ==
    /\ agent.phase = "constructed"
    /\ agent' = [agent EXCEPT !.mcp_client =
                     <<racing_connect(agent.mcp_client[1], irsdk_module, startup, sim).prov>>]
    /\ UNCHANGED << coach_vars, app >>

\* RacingAIAgent.disconnect_from_server; shutdown: what IRSDK.shutdown() does if called
disconnect_from_server(shutdown) ==
    /\ agent.phase = "constructed"
    /\ LET done == disconnect(agent.mcp_client[1], shutdown)
       IN agent' = [agent EXCEPT
                       !.mcp_client = <<done.prov>>,
                       !.disconnected = <<[shutdown_called |-> done.shutdown_called,
                                           shutdown |-> IF done.shutdown_called
                                                        THEN shutdown ELSE "none",
                                           raised |-> done.raised]>>]
    /\ UNCHANGED << coach_vars, app >>

\* self.mcp_client.list_available_tools(): the provider asked and what it answered
agent_list_available_tools ==
    /\ agent.phase = "constructed"
    /\ agent.listed = <<>>
    /\ agent' = [agent EXCEPT !.listed =
                     <<[p |-> agent.mcp_client[1],
                        tools |-> list_available_tools(agent.mcp_client[1])]>>]
    /\ UNCHANGED << coach_vars, app >>

AgentNext ==
    \/ \E openai_api_key \in ArgKeys, model \in ModelArgs, environ \in EnvKeys,
             dotenv \in DotenvKeys :
           RacingAIAgent_init(openai_api_key, model, environ, dotenv)
    \/ \E startup \in StartupOutcomes, sim \in SimStates : connect_to_server(startup, sim)
    \/ \E shutdown \in ShutdownOutcomes : disconnect_from_server(shutdown)
    \/ agent_list_available_tools

AgentSpec == Init /\ [][AgentNext]_vars

(***************************************************************************)
(* RacingAIAgent.analyze_racing_situation and the conversation history.    *)
(* A message is [role, content]; texts are shortened.                      *)
(***************************************************************************)
MaxExchanges == 4   \* successful exchanges kept in one conversation history

\* the length of the slice conversation_history[-5:]
HistoryWindow == 5

SystemMessage ==
    [role |-> "system",
     content |-> "You are an expert racing analyst and coach for sim-racing and sim-rally."]

\* the query argument: omitted, empty, or a question
Queries == {"None", "", "gap ahead?"}

\* the racing_info argument: what get_racing_info returned from a live sim, or the
\* placeholder of ask_question
RacingInfos == {"live", "placeholder"}

_format_racing_info(racing_info) ==
    IF racing_info = "live"
    THEN "Race Situation: - position: 2 Telemetry: - rpm: 6000.0 Track Information: - name: Monza"
    ELSE "Race Situation: - note: No live data available Telemetry: Track Information:"

\* the user prompt: `if query:` chooses between the two templates
UserPrompt(racing_info, query) ==
    "Current racing situation: " \o _format_racing_info(racing_info) \o
        (IF query \notin {"None", ""}
         THEN " Query: " \o query \o " Please provide a detailed response to the query"
         ELSE " Please provide an analysis of the current racing situation")

\* response.choices[0].message.content of the k-th exchange of a conversation
Reply(k) == "reply " \o ToString(k)

\* what chat.completions.create does: returns, or raises one of the API's exceptions
CreateOutcomes == {"ok", "Connection error.", "Rate limit reached"}

\* the slice h[-n:] of a list, n > 0
LastEntries(h, n) == IF Len(h) <= n THEN h ELSE SubSeq(h, Len(h) - n + 1, Len(h))

\* variant: the user prompt is recorded before the call is made
analyze_racing_situation_records_first(racing_info, query, outcome) ==
    /\ agent.phase = "constructed"
    /\ Len(agent.conversation_history) < 2 * MaxExchanges
    /\ LET user == [role |-> "user", content |-> UserPrompt(racing_info, query)]
           messages == <<SystemMessage>>
                       \o LastEntries(agent.conversation_history, HistoryWindow)
                       \o <<user>>
           assistant_message == Reply(Len(agent.conversation_history) \div 2 + 1)
       IN agent' =
              [agent EXCEPT
                  !.request = messages,
                  !.before = agent.conversation_history,
                  !.conversation_history =
                      IF outcome = "ok"
                      THEN @ \o <<user, [role |-> "assistant", content |-> assistant_message]>>
                      ELSE @ \o <<user>>,
                  !.returned = IF outcome = "ok" THEN assistant_message
                               ELSE "Error analyzing racing situation: " \o outcome,
                  !.raised = FALSE]
    /\ UNCHANGED << coach_vars, app >>

\* analyze_racing_situation(racing_info, query); outcome: what the OpenAI call does
analyze_racing_situation(racing_info, query, outcome) ==
    /\ agent.phase = "constructed"
    /\ Len(agent.conversation_history) < 2 * MaxExchanges
    /\ LET user == [role |-> "user", content |-> UserPrompt(racing_info, query)]
           messages == <<SystemMessage>>
                       \o LastEntries(agent.conversation_history, HistoryWindow)
                       \o <<user>>
           assistant_message == Reply(Len(agent.conversation_history) \div 2 + 1)
       IN agent' =
              [agent EXCEPT
                  !.request = messages,
                  !.before = agent.conversation_history,
                  !.conversation_history =
                      IF outcome = "ok"
                      THEN @ \o <<user, [role |-> "assistant", content |-> assistant_message]>>
                      ELSE @,
                  !.returned = IF outcome = "ok" THEN assistant_message
                               ELSE "Error analyzing racing situation: " \o outcome,
                  !.raised = FALSE]
    /\ UNCHANGED << coach_vars, app >>

\* RacingAIAgent.clear_conversation_history
clear_conversation_history ==
    /\ agent.phase = "constructed"
    /\ agent' = [agent EXCEPT !.conversation_history = <<>>]
    /\ UNCHANGED << coach_vars, app >>

\* an agent constructed with a key, before its first question
ChatInit ==
    /\ CoachInit
    /\ agent = RacingAIAgent("sk-arg", "None", "None", "None")
    /\ app = NoRequest

ChatNext ==
    \/ \E racing_info \in RacingInfos, query \in Queries, outcome \in CreateOutcomes :
           analyze_racing_situation(racing_info, query, outcome)
    \/ clear_conversation_history

ChatSpec == ChatInit /\ [][ChatNext]_vars

(***************************************************************************)
(* The web app's telemetry endpoints, /mcp and /mcp_snapshot.  Each request *)
(* makes its own RacingMCPClient.  c is that client while the request runs: *)
(* c.prov the provider, c.invoked the methods called on it, in order, and   *)
(* c.unreleased the number of handles made and not shut down.               *)
(***************************************************************************)
\* the methods of RacingMCPClient
ClientMethods ==
    {"__init__", "connect", "disconnect", "_ready", "_get", "get_racing_situation",
     "get_telemetry", "get_track_info", "list_available_tools"}

\* the attributes __init__ sets; none holds a callable
ClientFields == {"server_url", "timeout", "session", "_irsdk"}

\* the "tool" field of a request body: absent, empty, an attribute of the client, or a
\* name the client does not have
RequestedTools == {"None", "", "get_weather"} \cup ClientMethods \cup ClientFields

\* the "args" field of a request body: absent, an empty object, an object, a list
RequestArgs == {"None", "{}", "{\"lap\": 1}", "[1]"}

\* isinstance(args, dict)
IsDict(args) == args \in {"{}", "{\"lap\": 1}"}

\* the truth value of args: None and the empty object are false
ArgsTruthy(args) == args \in {"{\"lap\": 1}", "[1]"}

\* callable(getattr(client, tool_name, None)): every method of the client, by its name
callable(tool_name) == tool_name \in ClientMethods

\* RacingMCPClient()
NewClient == [prov |-> NewProvider, invoked |-> <<>>, unreleased |-> 0]

\* str() of the RuntimeError connect() raises, without its backquotes
MissingModule == "pyirsdk is required. Install it with pip install pyirsdk."

\* the getter that carries the name of the requested function
DirectCall(name, p) ==
    CASE name = "get_telemetry" -> get_telemetry(p)
      [] name = "get_racing_situation" -> get_racing_situation(p)
      [] name = "get_track_info" -> get_track_info(p)

\* what a method of the client returns: a value given by its JSON text, or the mapping
\* a getter builds in a provider state
Value(text) == [kind |-> "value", text |-> text]
Mapping(name, p) == [kind |-> "mapping", call |-> <<name, p>>]

\* the JSON text of what each getter returns in each provider state, computed once
GetterText ==
    [call \in {<<name, p>> : name \in ToolNames, p \in ProviderStates} |->
        json_dumps(DirectCall(call[1], call[2]))]

\* one call, without arguments, of the method `name` of client c: the client after it,
\* the value returned, and the exception raised
ClientCall(c, name, module, startup, sim, shutdown) ==
    LET seen == [c EXCEPT !.invoked = Append(@, name)]
        returns(client, data) == [client |-> client, data |-> data, raised |-> "none"]
    IN CASE name = "connect" ->
              LET r == racing_connect(c.prov, module, startup, sim)
              IN IF r.raised
                 THEN [client |-> seen, data |-> Value("null"), raised |-> "RuntimeError"]
                 ELSE returns([seen EXCEPT !.prov = r.prov, !.unreleased = @ + 1],
                              Value(IF r.result THEN "true" ELSE "false"))
         [] name = "disconnect" ->
              LET d == disconnect(c.prov, shutdown)
              IN returns([seen EXCEPT !.prov = d.prov,
                                      !.unreleased = IF d.shutdown_called THEN @ - 1 ELSE @],
                         Value("null"))
         [] name = "__init__" -> returns([seen EXCEPT !.prov = NewProvider], Value("null"))
         [] name = "_ready" ->
              returns(seen, Value(IF _ready(c.prov) THEN "true" ELSE "false"))
         [] name = "_get" -> [client |-> seen, data |-> Value("null"), raised |-> "TypeError"]
         [] name \in ToolNames -> returns(seen, Mapping(name, c.prov))
         [] OTHER ->
              returns(seen,
                      Value("[" \o JoinTexts([i \in 1..Len(list_available_tools(c.prov)) |->
                                                 JsonStr(list_available_tools(c.prov)[i])])
                                \o "]"))

\* the finally clause of both functions: client.disconnect(), then the return value r
\* or the exception goes to the caller; c is the client the body left
Finally(c, r, shutdown) ==
    [data |-> r.data, error |-> r.error, tools |-> r.tools, raised |-> r.raised,
     client |-> ClientCall(c, "disconnect", TRUE, "true", SimOff, shutdown).client]

\* {"data": data, "error": error}, or the exception that leaves the function
Returns(data, error) == [data |-> data, error |-> error, tools |-> <<>>, raised |-> "none"]
Raises(exc) == [data |-> Value("null"), error |-> "None", tools |-> <<>>, raised |-> exc]

Unsupported(tool_name) == "Unsupported tool '" \o tool_name \o "'."

\* _call_mcp_tool(tool_name, args): the mapping returned, the exception raised, and the
\* client the call leaves behind
_call_mcp_tool(tool_name, args, module, startup, sim, shutdown) ==
    LET connected == ClientCall(NewClient, "connect", module, startup, sim, shutdown)
        c == connected.client
        called == ClientCall(c, tool_name, module, startup, sim, shutdown)
        invokes == /\ connected.data.text = "true"
                   /\ callable(tool_name)
                   /\ ~ArgsTruthy(args)
        None == Value("null")
        r == CASE connected.raised # "none" -> Returns(None, MissingModule)
               [] connected.data.text # "true" ->
                    Returns(None, "Unable to connect to iRacing session.")
               [] ~callable(tool_name) -> Returns(None, Unsupported(tool_name))
               [] ArgsTruthy(args) /\ ~IsDict(args) ->
                    Returns(None, "Tool arguments must be a JSON object.")
               [] ArgsTruthy(args) -> Returns(None, "This tool does not accept arguments.")
               [] called.raised = "none" -> Returns(called.data, "None")
               [] called.raised = "RuntimeError" -> Returns(None, MissingModule)
               [] OTHER -> Raises(called.raised)
    IN Finally(IF invokes THEN called.client ELSE c, r, shutdown)

\* what one pass of the loop of _collect_all_tool_data stores under tool_name
ToolEntry(tool_name, called) ==
    IF ~callable(tool_name)
    THEN [name |-> tool_name, data |-> Value("null"), error |-> "Tool not callable."]
    ELSE [name |-> tool_name, data |-> called.data,
          error |-> CASE called.raised = "none" -> "None"
                      [] called.raised = "RuntimeError" -> MissingModule
                      [] OTHER -> "Unexpected error: " \o called.raised]

\* the loop of _collect_all_tool_data over names: pass[i] is the client and the entries
\* stored after the i-th name
CollectTools(c, names, module, startup, sim, shutdown) ==
    LET pass[i \in 0..Len(names)] ==
            IF i = 0 THEN [client |-> c, tools |-> <<>>]
            ELSE LET before == pass[i - 1]
                     tool_name == names[i]
                     called == ClientCall(before.client, tool_name,
                                          module, startup, sim, shutdown)
                 IN [client |-> IF callable(tool_name) THEN called.client
                                ELSE before.client,
                     tools |-> Append(before.tools, ToolEntry(tool_name, called))]
    IN pass[Len(names)]

\* _collect_all_tool_data(): the snapshot returned, the exception raised, and the client
\* the call leaves behind
_collect_all_tool_data(module, startup, sim, shutdown) ==
    LET connected == ClientCall(NewClient, "connect", module, startup, sim, shutdown)
        c == connected.client
        listed == [c EXCEPT !.invoked = Append(@, "list_available_tools")]
        done == CollectTools(listed, list_available_tools(c.prov),
                             module, startup, sim, shutdown)
        collects == connected.data.text = "true"
        r == CASE connected.raised # "none" -> Raises(connected.raised)
               [] ~collects ->
                    Returns(Value("null"), "Unable to connect to iRacing session.")
               [] OTHER -> [Returns(Value("null"), "None") EXCEPT !.tools = done.tools]
    IN Finally(IF collects THEN done.client ELSE c, r, shutdown)

\* the args invoke_mcp_tool passes on: a dict, or None
PassedArgs == {IF IsDict(args) THEN args ELSE "None" : args \in RequestArgs}

\* _call_mcp_tool for every request, module and behaviour of the handle, computed once
McpToolCalls ==
    [call \in {<<tool, args, module, startup, sim, shutdown>> :
                   tool \in RequestedTools, args \in PassedArgs, module \in BOOLEAN,
                   startup \in StartupOutcomes, sim \in SimStates,
                   shutdown \in ShutdownOutcomes} |->
        _call_mcp_tool(call[1], call[2], call[3], call[4], call[5], call[6])]

\* _collect_all_tool_data for every module and behaviour of the handle, computed once
McpSnapshots ==
    [call \in {<<module, startup, sim, shutdown>> :
                   module \in BOOLEAN, startup \in StartupOutcomes, sim \in SimStates,
                   shutdown \in ShutdownOutcomes} |->
        _collect_all_tool_data(call[1], call[2], call[3], call[4])]

\* the JSON text jsonify writes for a value
jsonify(v) == IF v.kind = "mapping" THEN GetterText[v.call] ELSE v.text

\* the status of a response: 500 when the view raised, else 200 without an error
StatusOf(r) ==
    CASE r.raised # "none" -> 500
      [] r.error \in {"None", ""} -> 200
      [] OTHER -> 503

\* POST /mcp with a body holding tool and args
invoke_mcp_tool(tool, args, startup, sim, shutdown) ==
    /\ app' = IF tool \in {"None", ""}
              THEN [endpoint |-> "/mcp", tool |-> tool, args |-> args, status |-> 400,
                    data |-> "null", error |-> "Missing 'tool' field.", tools |-> <<>>,
                    raised |-> "none", client |-> NewClient]
              ELSE LET r == McpToolCalls[<<tool, IF IsDict(args) THEN args ELSE "None",
                                             irsdk_module, startup, sim, shutdown>>]
                   IN [endpoint |-> "/mcp", tool |-> tool, args |-> args,
                       status |-> StatusOf(r), data |-> jsonify(r.data), error |-> r.error,
                       tools |-> r.tools, raised |-> r.raised, client |-> r.client]
    /\ UNCHANGED << coach_vars, agent >>

\* POST /mcp_snapshot
mcp_snapshot(startup, sim, shutdown) ==
    /\ LET r == McpSnapshots[<<irsdk_module, startup, sim, shutdown>>]
       IN app' = [endpoint |-> "/mcp_snapshot", tool |-> "None", args |-> "None",
                  status |-> StatusOf(r), data |-> "null", error |-> r.error,
                  tools |-> [i \in 1..Len(r.tools) |->
                                [r.tools[i] EXCEPT !.data = jsonify(@)]],
                  raised |-> r.raised, client |-> r.client]
    /\ UNCHANGED << coach_vars, agent >>

AppNext ==
    \/ \E tool \in RequestedTools, args \in RequestArgs, startup \in StartupOutcomes,
             sim \in SimStates, shutdown \in ShutdownOutcomes :
           invoke_mcp_tool(tool, args, startup, sim, shutdown)
    \/ \E startup \in StartupOutcomes, sim \in SimStates, shutdown \in ShutdownOutcomes :
           mcp_snapshot(startup, sim, shutdown)

AppSpec == Init /\ [][AppNext]_vars

(***************************************************************************)
(* Properties.                                                             *)
(***************************************************************************)
OfType(t) == SelectSeq(sent, LAMBDA m : m.type = t)

\* the messages that answer function calls, in the order they were sent
Replies == SelectSeq(sent, LAMBDA m : m.type \in {"conversation.item.create", "response.create"})

Outputs == OfType("conversation.item.create")

OpenStreams == {i \in DOMAIN streams : streams[i] = "open"}

\* the provider has a handle whose simulator is running
Live(p) == p.irsdk = "handle" /\ p.is_connected

DefaultOf(name) ==
    CASE name = "get_telemetry" -> TelemetryDefault
      [] name = "get_racing_situation" -> RacingSituationDefault
      [] name = "get_track_info" -> TrackInfoDefault

\* what each getter returns in each provider state, with its JSON text and its keys
Direct ==
    [call \in {<<name, p>> : name \in ToolNames, p \in ProviderStates} |->
        [result |-> DirectCall(call[1], call[2]),
         text |-> json_dumps(DirectCall(call[1], call[2])),
         keys |-> Keys(DirectCall(call[1], call[2]))]]

\* the mappings a dispatch can produce
DispatchResults ==
    {Direct[call].result : call \in DOMAIN Direct} \cup {UnknownFunction}

\* json.dumps of each of them
ResultText == [r \in DispatchResults |-> json_dumps(r)]

\* the keys of each of them
ResultKeys == [r \in DispatchResults |-> Keys(r)]

\* the frames the microphone delivers, in capture order
Frames == [k \in 1..MaxCaptured |-> Frame(k)]

\* C1: at most one speaker stream is open at any time, whatever the inbound messages:
\* an audio delta opens a stream only when none is open.
C1_OnePlaybackStream == Cardinality(OpenStreams) <= 1

\* two deltas in a row were played into the one stream the first of them opened
C1_Witness ==
    /\ Len(played) = 2
    /\ Len(streams) = 1
    /\ streams[1] = "open"
    /\ speaker_stream = 1

\* C2: once session.created and then session.updated have been received, exactly one
\* session.update has been sent, and it precedes every input_audio_buffer.append.
C2_OneConfigBeforeAudio ==
    session = "updated" =>
        /\ Len(OfType("session.update")) = 1
        /\ \A i \in DOMAIN sent :
              sent[i].type = "input_audio_buffer.append" =>
                  \E j \in 1..(i - 1) : sent[j].type = "session.update"

C2_Witness ==
    /\ session = "updated"
    /\ Len(OfType("input_audio_buffer.append")) >= 1

\* C3 as stated: session.update is never sent before session.created has been received.
C3_ConfigOnlyAfterCreated == Len(OfType("session.update")) > 0 => session # "none"

\* C3 as the code has it: run() sends session.update itself, straight after connect(),
\* so it is the first message on the transport before handle_messages takes any message;
\* receiving session.created sends nothing.
C3_ConfigSentByRun ==
    [][ /\ recv_pc' # "idle" => (sent' # <<>> /\ sent'[1].type = "session.update")
        /\ n_handled' > n_handled => Len(OfType("session.update")) = 1
        /\ handle_messages(PlainEvent("session.created"), "ok") => sent' = sent ]_vars

C3_Witness ==
    /\ session = "created"
    /\ n_handled = 1
    /\ Len(OfType("session.update")) = 1

\* C4: every function call taken from the transport is answered exactly once: one
\* conversation.item.create with the call's id and the JSON of the dispatch result, then
\* one response.create, both sent before the next inbound message is taken.
C4_CallsAnsweredOnce ==
    LET outputs == Outputs
        replies == Replies
    IN /\ Len(outputs) = Len(calls)
       /\ \A k \in DOMAIN calls :
             /\ outputs[k].call_id = calls[k].call_id
             /\ calls[k].result \in DispatchResults
             /\ outputs[k].output = ResultText[calls[k].result]
       /\ \A i \in DOMAIN replies :
             replies[i].type =
                 IF i % 2 = 1 THEN "conversation.item.create" ELSE "response.create"
       /\ recv_pc = "loop" => Len(replies) = 2 * Len(calls)
       /\ recv_pc = "tool_reply" => Len(replies) = 2 * Len(calls) - 1

\* two calls with different ids were answered and the loop is ready for the next message
C4_Witness ==
    /\ Len(calls) = 2
    /\ calls[1].call_id # calls[2].call_id
    /\ recv_pc = "loop"
    /\ Len(Replies) = 4

\* C5: a function call with a name outside the tool set is answered with exactly
\* {"error": "Unknown function"}; no provider getter is invoked, nothing is raised, and
\* the receive loop does not end because of it.
C5_UnknownFunctionReply ==
    LET outputs == Outputs
    IN /\ exit_cause # "dispatch"
       /\ \A k \in DOMAIN calls :
             calls[k].name \notin ToolNames =>
                 /\ calls[k].invoked = "none"
                 /\ k <= Len(outputs)
                 /\ outputs[k].output = "{\"error\": \"Unknown function\"}"

\* an unknown function was answered and a later message was handled
C5_Witness ==
    /\ Len(calls) = 1
    /\ calls[1].name = "unknown_tool"
    /\ n_handled = 2
    /\ recv_pc = "loop"

\* C6: for a function of the tool set and a connected provider, the result sent back is
\* the mapping a direct call of the same-named getter returns in that provider state, and
\* it has no error field.
C6_DispatchMatchesDirectCall ==
    LET outputs == Outputs
    IN \A k \in DOMAIN calls :
           (calls[k].name \in ToolNames /\ Live(calls[k].prov)) =>
               /\ calls[k].prov \in ProviderStates
               /\ calls[k].invoked = calls[k].name
               /\ calls[k].result = Direct[<<calls[k].name, calls[k].prov>>].result
               /\ "error" \notin Direct[<<calls[k].name, calls[k].prov>>].keys
               /\ k <= Len(outputs)
               /\ outputs[k].output = Direct[<<calls[k].name, calls[k].prov>>].text

\* get_track_info was answered from a running simulator with its track name
C6_Witness ==
    /\ Len(calls) >= 1
    /\ calls[1].name = "get_track_info"
    /\ Live(calls[1].prov)
    /\ DictGet(calls[1].result, "name", "") = JsonStr("Monza")
    /\ Len(Outputs) >= 1

\* the provider cannot deliver live data: no live connection, or reads that raise
ProviderFails(p) == ~Live(p) \/ p.sim.readfail

\* C7 as stated: when the provider fails during a dispatch, the result sent back is a
\* structured {"error": ...}.
C7_FailureYieldsErrorResult ==
    \A k \in DOMAIN calls :
        (calls[k].name \in ToolNames /\ ProviderFails(calls[k].prov)) =>
            "error" \in Keys(calls[k].result)

\* C7 as the code has it: the provider absorbs the failure.  Without a live connection
\* the getter returns its default mapping, with reads that raise it returns the default
\* of each value read; that mapping, which has no error field, is sent for the call id,
\* and the receive loop does not end because of the failure.
C7_FailureAbsorbedAsDefaults ==
    LET outputs == Outputs
    IN /\ exit_cause # "dispatch"
       /\ \A k \in DOMAIN calls :
             (calls[k].name \in ToolNames /\ ProviderFails(calls[k].prov)) =>
                 /\ calls[k].result \in DispatchResults
                 /\ "error" \notin ResultKeys[calls[k].result]
                 /\ ResultKeys[DefaultOf(calls[k].name)] \subseteq ResultKeys[calls[k].result]
                 /\ ~Live(calls[k].prov) => calls[k].result = DefaultOf(calls[k].name)
                 /\ calls[k].name = "get_telemetry" =>
                        DictGet(calls[k].result, "rpm", "") = "0"
                 /\ calls[k].name = "get_racing_situation" =>
                        DictGet(calls[k].result, "lap", "") = "null"
                 /\ k <= Len(outputs)
                 /\ outputs[k].call_id = calls[k].call_id
                 /\ outputs[k].output = ResultText[calls[k].result]

\* a call met a connected provider whose reads raise, and a later message was handled
C7_Witness ==
    /\ Len(calls) = 1
    /\ calls[1].name = "get_telemetry"
    /\ Live(calls[1].prov)
    /\ calls[1].prov.sim.readfail
    /\ n_handled = 2
    /\ recv_pc = "loop"

\* connect() of the provider has failed: it returned False or it raised
ProviderConnectFailed ==
    \/ startup_outcome \in {"false", "raises"}
    \/ ~irsdk_module /\ ws # "None"

\* C8 as stated: when the provider connection fails at startup in any way, run() does
\* not raise.
C8_ConnectFailureNeverRaises == ProviderConnectFailed => run_exc # "RuntimeError"

\* C8 as the code has it: when connect() returns False (startup() returned False or
\* raised), run() goes on: it sends the configuration built from the provider's defaults
\* and starts both loops, unless the transport has dropped or the operator has interrupted
\* by then.  When the irsdk module is missing connect() raises RuntimeError and run() ends
\* without sending anything.
C8_ConnectFalseProceeds ==
    /\ startup_outcome \in {"false", "raises"} =>
          /\ run_pc # "start"
          /\ run_exc \in {"none", "ConnectionClosed", "AudioDeviceError", "Interrupted"}
          /\ (/\ run_pc \in {"gather", "cleanup", "done"}
              /\ run_exc \notin {"ConnectionClosed", "Interrupted"}) =>
                 /\ sent # <<>>
                 /\ sent[1].type = "session.update"
                 /\ sent[1].instructions = << "\"unknown\"", "null", "0.0" >>
                 /\ send_pc # "idle"
                 /\ recv_pc # "idle"
    /\ (~irsdk_module /\ ws # "None") =>
          /\ run_exc = "RuntimeError"
          /\ run_pc \in {"cleanup", "done"}
          /\ sent = <<>>

\* startup() raised, and both loops are running
C8_Witness ==
    /\ startup_outcome = "raises"
    /\ run_pc = "gather"
    /\ send_pc = "loop"
    /\ recv_pc = "loop"

\* C9: without a live connection (never connected, connect() returned False, simulator
\* gone, or after disconnect()) the three getters return their default mappings, which
\* hold the documented keys.
C9_DefaultsWithoutLiveConnection ==
    /\ prov \in ProviderStates
    /\ ~Live(prov) =>
          /\ Direct[<<"get_racing_situation", prov>>].text =
                "{\"position\": null, \"lap\": null, \"speed\": null, \"track_conditions\": {}, \"vehicle_status\": {}, \"competitors\": []}"
          /\ Direct[<<"get_telemetry", prov>>].text =
                "{\"rpm\": 0, \"gear\": 0, \"throttle\": 0.0, \"brake\": 0.0, \"clutch\": 0.0, \"steering\": 0.0, \"speed_ms\": 0.0, \"speed_kph\": 0.0, \"speed_mph\": 0.0, \"temperatures\": {}}"
          /\ Direct[<<"get_track_info", prov>>].text =
                "{\"name\": \"unknown\", \"length\": \"unknown\", \"layout\": \"unknown\", \"surface\": \"unknown\", \"weather\": \"unknown\"}"
          /\ {"position", "lap", "speed", "track_conditions", "vehicle_status", "competitors"}
                \subseteq Direct[<<"get_racing_situation", prov>>].keys
          /\ {"rpm", "gear", "throttle", "brake", "steering", "temperatures"}
                \subseteq Direct[<<"get_telemetry", prov>>].keys
          /\ {"name", "length", "layout", "surface", "weather"}
                \subseteq Direct[<<"get_track_info", prov>>].keys
    /\ \A k \in DOMAIN calls :
          (calls[k].name \in ToolNames /\ ~Live(calls[k].prov)) =>
              calls[k].result = DefaultOf(calls[k].name)

\* a getter was called on a handle whose connect() had returned False
C9_Witness ==
    /\ startup_outcome = "false"
    /\ Len(calls) >= 1
    /\ calls[1].name = "get_racing_situation"
    /\ calls[1].prov.irsdk = "handle"
    /\ ~calls[1].prov.is_connected

C11_CallbackNeverBlocks == mic = "on" => ~queue_full(input_queue)

\* two frames were put while the send loop drained none and the transport is already gone
C11_Witness ==
    /\ mic = "on"
    /\ send_pc = "loop"
    /\ ~ws_alive
    /\ captured >= 2
    /\ Len(input_queue) = captured

\* C12: on termination every release operation is executed, also when an earlier one
\* has failed: once run() has ended the provider has been disconnected.
C12_AllReleasesRun == run_pc = "done" => prov.irsdk = "None"

\* C13: an interrupt arriving while run() is in its try block stops the send loop and
\* the receive loop, takes run() to its cleanup, and leaves no speaker stream open and
\* the microphone stream not running.
C13_InterruptStopsEverything ==
    run_exc = "Interrupted" =>
        /\ run_pc \in {"cleanup", "done"}
        /\ send_pc \in {"idle", "done", "raised"}
        /\ recv_pc \in {"idle", "done"}
        /\ OpenStreams = {}
        /\ mic # "on"

\* the interrupt arrived while the assistant was speaking and the microphone was on
C13_Witness ==
    /\ run_exc = "Interrupted"
    /\ exit_cause = "cancelled"
    /\ Len(streams) = 1
    /\ streams[1] = "closed"
    /\ Len(played) = 1
    /\ mic = "closed"
    /\ run_pc = "done"

\* C14: once one of the two loops has ended the controller stops running the session:
\* the loop that is left takes no further message and sends nothing.
C14_StopsWhenALoopEnds ==
    [][ (run_pc = "gather" /\ (send_pc = "done" \/ recv_pc = "done")) =>
            (n_handled' = n_handled /\ sent' = sent) ]_vars

\* the audio deltas with a payload and the function calls the service may send
Effectful ==
    {m \in UNION {Inbox[k] : k \in DOMAIN Inbox} :
        \/ m.type = "response.function_call_arguments.done"
        \/ (m.type = "response.audio.delta" /\ m.delta # <<>>)}

\* C15: inbound events are handled one at a time in arrival order: a message is taken
\* only while the handling of the previous one is complete (every function call taken so
\* far has both its reply messages on the transport), exactly one message is taken per
\* step, and a recognized event is not skipped: a function call is recorded and
\* dispatched, an audio delta with a payload is written to the speaker.
C15_HandledInArrivalOrder ==
    [][ n_handled' # n_handled =>
            /\ n_handled' = n_handled + 1
            /\ recv_pc = "loop"
            /\ Len(Replies) = 2 * Len(calls)
            /\ Len(sent') <= Len(sent) + 1
            /\ \A m \in Effectful :
                  handle_messages(m, "ok") =>
                      IF m.type = "response.audio.delta"
                      THEN /\ Len(played') = Len(played) + 1
                           /\ played'[Len(played')][2] = b64decode(m.delta)
                           /\ calls' = calls
                      ELSE /\ Len(calls') = Len(calls) + 1
                           /\ calls'[Len(calls')].name = m.name
                           /\ calls'[Len(calls')].call_id = m.call_id
                           /\ played' = played ]_vars

\* a function call was answered in full, then an audio delta was played, and the loop is
\* ready for a third message
C15_Witness ==
    /\ n_handled = 2
    /\ recv_pc = "loop"
    /\ Len(calls) = 1
    /\ Len(played) = 1
    /\ Len(sent) >= 3
    /\ sent[Len(sent)] = ResponseCreate

\* C16: a message whose type is none of the recognized event kinds changes nothing: no
\* message is sent, the playback stream is neither opened, written nor closed, the
\* provider is not called, and the receive loop continues with the next message.
C16_UnrecognizedChangesNothing ==
    [][ (n_handled' # n_handled /\ handle_messages(PlainEvent("rate_limits.updated"), "ok")) =>
            /\ UNCHANGED << sent, speaker_stream, streams, played, calls, prov, exit_cause >>
            /\ recv_pc' = "loop" ]_vars

\* an unrecognized message was taken in a run that has a playback stream open, and the
\* stream is still open and the loop still running
C16_Witness ==
    /\ ignored
    /\ n_handled = 2
    /\ recv_pc = "loop"
    /\ Len(played) = 1
    /\ OpenStreams = {1}
    /\ speaker_stream = 1
    /\ calls = <<>>

\* the error codes the specification classifies as session-fatal
SessionFatal == {"invalid_api_key", "invalid_session"}

\* C19: on an error event the receive loop continues, except when the error is
\* session-fatal (malformed session, auth failure): then the loop ends and no further
\* event is handled.
C19_FatalErrorCloses ==
    [][ \A code \in ErrorCodes :
            (n_handled' # n_handled /\ handle_messages(ErrorEvent(code), "ok")) =>
                recv_pc' = IF code \in SessionFatal THEN "done" ELSE "loop" ]_vars

\* C20: a malformed inbound message (one that is not valid JSON) causes no transition:
\* the receive loop keeps handling the messages that follow it.
C20_MalformedMessageSkipped ==
    [][ (n_handled' # n_handled /\ handle_messages(MalformedMessage, "ok")) =>
            /\ recv_pc' = "loop"
            /\ exit_cause' = "none" ]_vars

\* C17: a client that was never connected (no active session) lists no tools:
\* list_available_tools returns the empty list.
C17_NoSessionNoTools ==
    (agent.phase = "constructed" /\ agent.listed # <<>>) =>
        (agent.listed[1].p = NewProvider => agent.listed[1].tools = <<>>)

\* C18: constructing a RacingAIAgent without a key argument and without OPENAI_API_KEY
\* in the environment (as the constructor reads it, after load_dotenv) raises ValueError
\* before an OpenAI client or a telemetry client exists; with a key available the
\* constructor succeeds with an OpenAI client holding that key (the argument first, the
\* environment otherwise), the given model, a new telemetry client and an empty history.
C18_AgentNeedsKey ==
    [][ (agent.phase = "none" /\ agent'.phase # "none") =>
            LET a == agent'
                arg == a.args.openai_api_key
                env == a.environ
            IN IF arg \in {"None", ""} /\ env \in {"None", ""}
               THEN /\ a.phase = "raised"
                    /\ a.exc = "ValueError"
                    /\ a.client = "None"
                    /\ a.mcp_client = <<>>
               ELSE /\ a.phase = "constructed"
                    /\ a.client = IF arg \notin {"None", ""} THEN arg ELSE env
                    /\ a.model = IF a.args.model = "None" THEN "gpt-4" ELSE a.args.model
                    /\ a.mcp_client = <<NewProvider>>
                    /\ a.conversation_history = <<>> ]_vars

\* a constructor call with an empty key argument and no key in the environment or the
\* .env file has raised ValueError
C18_Witness ==
    /\ agent.phase = "raised"
    /\ agent.args.openai_api_key = ""
    /\ agent.args.environ = "None"
    /\ agent.args.dotenv = "None"
    /\ agent.exc = "ValueError"

\* C21: on response.audio.done the open speaker stream, if any, is stopped and closed and
\* self.speaker_stream is cleared, so that no stream is open afterwards; with no stream
\* open the event closes nothing and raises nothing: the loop goes on.
C21_AudioDoneClosesStream ==
    [][ (n_handled' # n_handled /\ handle_messages(PlainEvent("response.audio.done"), "ok")) =>
            /\ speaker_stream' = 0
            /\ \A i \in DOMAIN streams' : streams'[i] = "closed"
            /\ streams' = IF speaker_stream # 0
                          THEN [streams EXCEPT ![speaker_stream] = "closed"]
                          ELSE streams
            /\ recv_pc' = "loop"
            /\ exit_cause' = "none" ]_vars

\* the assistant spoke and finished: the stream is closed, the reference cleared and the
\* loop ready for the next message
C21_Witness ==
    /\ streams = <<"closed">>
    /\ speaker_stream = 0
    /\ recv_pc = "loop"
    /\ n_handled = 2

\* the audio deltas the service may send, with and without payload
AllDeltas == {m \in UNION {Inbox[k] : k \in DOMAIN Inbox} : m.type = "response.audio.delta"}

\* the decoded audio chunks in the order the service streams them
Chunks == [k \in 1..(MaxEvents + 1) |-> Chunk(k)]

\* C22 as stated: every response.audio.delta leaves a speaker stream open and writes to it.
C22_EveryDeltaOpensAndWrites ==
    [][ \A m \in AllDeltas :
            (n_handled' # n_handled /\ handle_messages(m, "ok")) =>
                /\ speaker_stream' # 0
                /\ Len(played') = Len(played) + 1 ]_vars

\* C22 as the code has it: a delta with an empty payload opens and writes nothing; a
\* delta with a payload opens a stream if none is open and writes the decoded bytes, so
\* the bytes played are the payloads in arrival order, the writes to one stream are
\* consecutive, every stream that was opened was written to (unless the device failed
\* on its first write) and only the newest stream can still be open.
C22_PayloadsPlayedInOrder ==
    /\ \A i \in DOMAIN played :
          /\ played[i][2] = Chunks[i]
          /\ played[i][1] \in DOMAIN streams
          /\ i > 1 => played[i - 1][1] <= played[i][1]
    /\ \A st \in DOMAIN streams :
          /\ \/ \E i \in DOMAIN played : played[i][1] = st
             \/ (st = Len(streams) /\ exit_cause = "device")
          /\ streams[st] = "open" => (st = Len(streams) /\ speaker_stream = st)

\* one delta X then response.audio.done: one stream was opened, X written, and closed
C22_Witness ==
    /\ played = << <<1, Chunk(1)>> >>
    /\ streams = <<"closed">>
    /\ speaker_stream = 0

\* C23: sending captured audio is not gated on the speech events: speech_started and
\* speech_stopped change only the status shown, nothing the send loop reads (the queue,
\* the transport, the microphone stream) and nothing it has sent.
C23_SpeechEventsDoNotGateAudio ==
    [][ \A t \in {"input_audio_buffer.speech_started", "input_audio_buffer.speech_stopped"} :
            (n_handled' # n_handled /\ handle_messages(PlainEvent(t), "ok")) =>
                /\ UNCHANGED << input_queue, captured, mic, send_pc, ws, ws_alive, sent >>
                /\ status' # "none" ]_vars

\* speech started and stopped, and a frame captured meanwhile went out
C23_Witness ==
    /\ status = "processing"
    /\ n_handled = 2
    /\ send_pc = "loop"
    /\ captured = 1
    /\ input_queue = <<>>
    /\ sent[Len(sent)].type = "input_audio_buffer.append"

\* C24: tool calls are dispatched one at a time and only by the receive loop: a call is
\* dispatched only when every earlier call has its result and its response.create on
\* the transport, one call per step, and a step of the send loop or of the capture
\* callback neither dispatches a call nor touches the provider.
C24_OneDispatchAtATime ==
    [][ /\ calls' # calls =>
              /\ recv_pc = "loop"
              /\ Len(calls') = Len(calls) + 1
              /\ SubSeq(calls', 1, Len(calls)) = calls
              /\ LET replies == Replies
                 IN /\ Len(replies) = 2 * Len(calls)
                    /\ replies # <<>> => replies[Len(replies)] = ResponseCreate
              /\ n_handled' = n_handled + 1
        /\ (input_queue' # input_queue \/ send_pc' # send_pc) =>
              (calls' = calls /\ prov' = prov) ]_vars

\* two calls were answered one after the other while a captured frame went out between
\* the result and the response.create of one of them
C24_Witness ==
    /\ Len(calls) = 2
    /\ recv_pc = "loop"
    /\ \E i \in 1..(Len(sent) - 2) :
          /\ sent[i].type = "conversation.item.create"
          /\ sent[i + 1].type = "input_audio_buffer.append"
          /\ sent[i + 2] = ResponseCreate

\* C25: the transport is opened at most once per run, by connect(): once it has failed or
\* been closed it is never open and alive again, no further inbound message is taken,
\* nothing more is sent, and a receive loop that has ended stays ended.
C25_TransportOpenedOnce ==
    [][ /\ (ws' = "open" /\ ws # "open") => (run_pc = "start" /\ ws = "None")
        /\ (ws # "None" /\ ~ws_alive) =>
              /\ ~ws_alive'
              /\ ws' # "None"
              /\ n_handled' = n_handled
              /\ sent' = sent
        /\ ws = "closed" => ws' = "closed"
        /\ recv_pc = "done" => recv_pc' = "done" ]_vars

\* the connection dropped in mid-session, the receive loop ended on it, and the run went
\* through cleanup without another connection
C25_Witness ==
    /\ exit_cause = "transport"
    /\ n_handled >= 1
    /\ run_exc = "none"
    /\ run_pc = "done"
    /\ ws = "closed"

\* C26: when opening the transport fails at startup the session does not start: nothing
\* is ever sent, neither loop runs, no microphone or speaker stream is created, run()
\* propagates the failure, and cleanup runs without trying to close a transport that was
\* never opened, leaving the provider without a handle.
C26_TransportOpenFailure ==
    /\ (run_pc # "start" /\ ws = "None" /\ run_exc # "Interrupted") => run_exc = "ConnectError"
    /\ run_exc = "ConnectError" =>
          /\ run_pc \in {"cleanup", "done"}
          /\ ws = "None"
          /\ sent = <<>>
          /\ send_pc = "idle"
          /\ recv_pc = "idle"
          /\ mic = "off"
          /\ streams = <<>>
          /\ n_handled = 0
          /\ prov.irsdk = "None"
          /\ cleanup_exc = "none"

\* the transport could not be opened and run() has ended through cleanup
C26_Witness ==
    /\ run_exc = "ConnectError"
    /\ run_pc = "done"
    /\ ws = "None"

\* C27 as stated: the provider connection is opened before the transport, so whenever
\* run() is past connect() the provider connection has been attempted.
C27_ProviderBeforeTransport ==
    (run_pc # "start" /\ run_exc # "Interrupted") => (startup_outcome # "none" \/ ~irsdk_module)

\* C27 as the code has it: the transport is opened first, then the provider connection,
\* then the configuration is sent, and only then the loops start: the provider is
\* attached only with a transport opened, the first message sent is session.update, and
\* the loops have started only after it was sent.
C27_TransportBeforeProvider ==
    /\ (startup_outcome # "none" \/ prov.irsdk = "handle") => ws # "None"
    /\ run_pc = "connected" => (ws = "open" /\ sent = <<>>)
    /\ sent # <<>> => (sent[1].type = "session.update" /\ ws # "None")
    /\ (send_pc # "idle" \/ recv_pc # "idle") => sent # <<>>
    /\ run_pc = "gather" => sent # <<>>

\* transport open, simulator attached, configuration sent and both loops running
C27_Witness ==
    /\ startup_outcome = "true"
    /\ prov.is_connected
    /\ ws = "open"
    /\ Len(sent) = 1
    /\ send_pc = "loop"
    /\ recv_pc = "loop"

\* the audio deltas that carry a payload
PayloadDeltas == {m \in AllDeltas : m.delta # <<>>}

\* C28: an audio device failure ends its own direction only: when the microphone cannot
\* be started the send loop ends and the receive loop is left as it is, and when opening
\* or writing the speaker stream raises, the receive loop keeps handling events, or else
\* the controller shuts down.
C28_DeviceFailureIsLocal ==
    [][ /\ send_audio_start("start_fails") => (send_pc' = "done" /\ recv_pc' = recv_pc)
        /\ \A m \in PayloadDeltas, device \in {"open_fails", "write_fails"} :
              (n_handled' # n_handled /\ handle_messages(m, device)) =>
                  (recv_pc' = "loop" \/ run_pc' \in {"cleanup", "done"}) ]_vars

\* C29: whenever run() has returned or raised, no speaker stream is open, the transport
\* that was opened has been closed and the provider has been disconnected.
C29_EverythingReleasedAtExit ==
    run_pc = "done" =>
        /\ OpenStreams = {}
        /\ ws # "open"
        /\ prov.irsdk = "None"

\* what base64.b64decode yields for each append message the send loop can build
DecodedAudio == [m \in {AppendOf[data] : data \in DOMAIN AppendOf} |-> b64decode(m.audio)]

\* C30: captured frames are forwarded first-in first-out: the append messages sent carry,
\* in order and once each, the first frames the callback has enqueued, none of those
\* still waiting in the queue, and each payload decodes back to the captured bytes.
C30_FramesForwardedInOrder ==
    LET appends == OfType("input_audio_buffer.append")
    IN /\ Len(appends) + Len(input_queue) <= captured
       /\ \A i \in DOMAIN appends :
             /\ appends[i] \in DOMAIN DecodedAudio
             /\ DecodedAudio[appends[i]] = Frames[i]

\* both captured frames were forwarded and the queue is empty
C30_Witness ==
    /\ captured = 2
    /\ input_queue = <<>>
    /\ Len(OfType("input_audio_buffer.append")) = 2
    /\ send_pc = "loop"

\* C31: no loop step blocks without bound.  A read of the empty capture queue gives up:
\* send_audio does not stay in get() for ever, it yields, so that handle_messages and a
\* pending cancellation get to run; and once the transport is gone the iteration over it
\* ends, so handle_messages terminates.
C31_NoUnboundedBlocking ==
    /\ (send_pc = "get") ~> (send_pc # "get")
    /\ (recv_pc \in {"loop", "tool_reply"} /\ ws # "None" /\ ~ws_alive) ~> (recv_pc = "done")

\* the transport dropped while send_audio was polling an empty queue, and handle_messages
\* has ended on it although no frame was ever captured
C31_Witness ==
    /\ exit_cause = "transport"
    /\ recv_pc = "done"
    /\ send_pc \in {"loop", "get"}
    /\ captured = 0
    /\ run_pc = "gather"

\* C32: a tool dispatch whose provider call does not complete is bounded by a timeout:
\* handle_messages does not stay inside the getter for ever, the call is given up and the
\* loops go on.
C32_DispatchBoundedByTimeout == (recv_pc = "dispatch") ~> (recv_pc # "dispatch")

\* C33: each request of analyze_racing_situation carries the system prompt, then the
\* last 5 exchanges (user and assistant pairs, ten messages) of the conversation history
\* as it was before the call, in their order, then the new user prompt.
C33_RequestCarriesLastFiveExchanges ==
    agent.request # <<>> =>
        LET n == Len(agent.request)
        IN /\ agent.request[1] = SystemMessage
           /\ agent.request[n].role = "user"
           /\ SubSeq(agent.request, 2, n - 1) = LastEntries(agent.before, 2 * 5)

\* C34 as stated: the two messages answering a tool call are adjacent on the transport:
\* a conversation.item.create that is not the last message sent is directly followed by
\* response.create.
C34_ReplyPairAdjacent ==
    \A i \in 1..(Len(sent) - 1) :
        sent[i].type = "conversation.item.create" => sent[i + 1] = ResponseCreate

\* C34 as the code has it: each ws.send is an await at which send_audio may run, so
\* append messages can go out between the two messages of a reply; nothing else can.
\* The first message after a conversation.item.create that is not an append is its
\* response.create (none yet only while the reply is pending or when the loop has ended
\* before it), and every response.create has its conversation.item.create before it
\* with nothing but appends in between.
C34_OnlyAppendsInsideReply ==
    \A i \in DOMAIN sent :
        /\ sent[i].type = "conversation.item.create" =>
               LET later == {j \in (i + 1)..Len(sent) :
                                sent[j].type # "input_audio_buffer.append"}
               IN IF later = {}
                  THEN recv_pc \in {"tool_reply", "done"}
                  ELSE sent[CHOOSE j \in later : \A k \in later : j <= k] = ResponseCreate
        /\ sent[i] = ResponseCreate =>
               \E j \in 1..(i - 1) :
                   /\ sent[j].type = "conversation.item.create"
                   /\ \A k \in (j + 1)..(i - 1) : sent[k].type = "input_audio_buffer.append"

\* one tool call was answered, and a captured frame went out between its result and its
\* response.create
C34_Witness ==
    /\ Len(calls) = 1
    /\ Len(sent) = 4
    /\ sent[2].type = "conversation.item.create"
    /\ sent[3].type = "input_audio_buffer.append"
    /\ sent[4] = ResponseCreate
    /\ recv_pc = "loop"

C36_DisconnectIdempotent ==
    /\ [](agent.phase = "constructed" =>
              LET p == agent.mcp_client[1]
              IN ~Live(p) =>
                    /\ get_racing_situation(p) = RacingSituationDefault
                    /\ get_telemetry(p) = TelemetryDefault
                    /\ get_track_info(p) = TrackInfoDefault)
    /\ [][
          \A shutdown \in ShutdownOutcomes :
              disconnect_from_server(shutdown) =>
                  LET p == agent.mcp_client[1]
                      q == agent'.mcp_client[1]
                  IN /\ q.irsdk = "None"
                     /\ ~Live(q)
                     /\ ~agent'.disconnected[1].raised
                     /\ agent'.disconnected[1].shutdown_called = (p.irsdk # "None")
                     /\ p.irsdk = "None" => q = p
                     /\ disconnect(q, shutdown).prov = q
       ]_vars

\* a connected client was disconnected, shutdown() raised, and the handle is gone
C36_Witness ==
    /\ agent.phase = "constructed"
    /\ agent.disconnected # <<>>
    /\ agent.disconnected[1].shutdown = "raises"
    /\ ~agent.disconnected[1].raised
    /\ agent.mcp_client[1].irsdk = "None"
    /\ agent.mcp_client[1].sim # SimOff

\* C39: analyze_racing_situation never raises when the OpenAI call fails.  A call that
\* succeeds appends exactly two entries to conversation_history, the user prompt and then
\* the assistant's reply, and returns the reply; a call that fails returns an error
\* string and leaves conversation_history as it was; clear_conversation_history leaves
\* the history empty whatever it held.
C39_HistoryOnlyGrowsOnSuccess ==
    [][
       /\ \A racing_info \in RacingInfos, query \in Queries, outcome \in CreateOutcomes :
             analyze_racing_situation(racing_info, query, outcome) =>
                 LET h == agent.conversation_history
                     g == agent'.conversation_history
                 IN /\ ~agent'.raised
                    /\ outcome = "ok" =>
                          /\ Len(g) = Len(h) + 2
                          /\ SubSeq(g, 1, Len(h)) = h
                          /\ g[Len(h) + 1] =
                                 [role |-> "user", content |-> UserPrompt(racing_info, query)]
                          /\ g[Len(h) + 2].role = "assistant"
                          /\ agent'.returned = g[Len(h) + 2].content
                    /\ outcome # "ok" =>
                          /\ g = h
                          /\ agent'.returned = "Error analyzing racing situation: " \o outcome
       /\ clear_conversation_history => agent'.conversation_history = <<>>
    ]_vars

\* after one exchange that succeeded, a call failed on a connection error: the caller got
\* the error string and the history still holds the two entries of the first exchange
C39_Witness ==
    /\ agent.phase = "constructed"
    /\ agent.returned = "Error analyzing racing situation: Connection error."
    /\ ~agent.raised
    /\ Len(agent.conversation_history) = 2
    /\ agent.before = agent.conversation_history
    /\ agent.conversation_history[2] = [role |-> "assistant", content |-> Reply(1)]

\* the number of times method `name` was called on the client of the last request
TimesInvoked(name) == Len(SelectSeq(app.client.invoked, LAMBDA m : m = name))

\* the last request got as far as looking the tool up: it had a tool field and its
\* connect() returned True
ToolLookedUp ==
    /\ app.endpoint = "/mcp"
    /\ app.status # 400
    /\ app.error \notin {MissingModule, "Unable to connect to iRacing session."}

\* C37: _call_mcp_tool invokes only the three telemetry getters.  Between its connect()
\* and its closing disconnect() it calls nothing but get_racing_situation, get_telemetry
\* or get_track_info, and for any other tool name it answers with data null and the
\* error "Unsupported tool '<name>'." and calls no further method of the client.
C37_OnlyTelemetryGetters ==
    ToolLookedUp =>
        /\ \A i \in 2..(Len(app.client.invoked) - 1) : app.client.invoked[i] \in ToolNames
        /\ app.tool \notin ToolNames =>
              /\ app.error = Unsupported(app.tool)
              /\ app.data = "null"
              /\ app.client.invoked = <<"connect", "disconnect">>

\* C38: every request served by _call_mcp_tool and _collect_all_tool_data releases its
\* client.  Once the client exists, whatever path the function takes, disconnect() is
\* called exactly once, as the last call, and the client is left without a handle and
\* with no handle that was made and never shut down.
C38_ClientReleasedOnce ==
    (app.endpoint # "none" /\ app.status # 400) =>
        /\ TimesInvoked("disconnect") = 1
        /\ app.client.invoked[Len(app.client.invoked)] = "disconnect"
        /\ app.client.prov.irsdk = "None"
        /\ app.client.unreleased = 0

====
